---- MODULE Spec2Model ----
(***************************************************************************)
(* Order lifecycle and PnL guard of topstep-bot (src/main.py), and the      *)
(* connection state of its streams (src/topstep_client/streams.py).        *)
(*                                                                         *)
(* Threads.  Every coroutine of main.py (the webhook, the strategy form    *)
(* endpoints, /check_trade_status, trade_event_handler) runs on the one    *)
(* asyncio event loop: between two suspension points a coroutine is not    *)
(* interleaved with another coroutine.  The stream callbacks               *)
(* (handle_user_trade, handle_market_trade_event) run on the threads of    *)
(* the stream connections and interleave with the loop between the steps   *)
(* the actions below name.                                                 *)
(*                                                                         *)
(* Encoding.  Prices are integers in units of 1/PriceScale point           *)
(* (18022.50 is 36045), money is in whole dollars, None is NoPrice for a   *)
(* price and NoTrade for an order id / Trade reference.  A Trade object is *)
(* an entry of the heap "trades", keyed by the order id it was built with. *)
(***************************************************************************)
EXTENDS Integers, Sequences, FiniteSets, TLC

VARIABLES
    strategies,     \* main.py `strategies`: name -> config dict
    trade_states,   \* main.py `trade_states`: name -> runtime state dict
    trades,         \* heap of Trade objects: order id -> fields
    latest_price,   \* what fetch_current_price returns, per contract id
    webhooks,       \* the receive_alert_strategy requests
    broker_orders,  \* orders the broker accepted; the i-th has order id i
    checks,         \* trade_event_handler / check_trade_status coroutines
    user_pc,        \* position of handle_user_trade on the user-stream thread
    alert_log,      \* "Exception Closing Position" records in ALERT_LOG_PATH
    halt_log,       \* strategies named by a "Trading halted for the day" log line
    stream,         \* a BaseStream object (streams.py), its coroutines and transport
    client,         \* the APIClient (api_client.py), its calls and the requests it sent
    manual,         \* the /manual/trailing_stop_order requests
    user_events,    \* GatewayUserTrade batches: in flight, delivered, applied
    tasks           \* the market-stream tasks scheduled after an entry and a close

vars == <<strategies, trade_states, trades, latest_price, webhooks,
          broker_orders, checks, user_pc, alert_log, halt_log, stream,
          client, manual, user_events, tasks>>

----------------------------------------------------------------------------
\* Bounds of the model.

MaxWebhooks == 2
MaxChecks == 2
MaxLogged == 1
MaxStarts == 2
MaxStops == 2
MaxDrops == 1

\* Subscribe calls of the application while a transport is established are
\* followed up to this many sends per contract.
MaxSent == 2
MaxCalls == 2
MaxManual == 1

\* GatewayUserTrade events the user stream delivers.
MaxEvents == 3

----------------------------------------------------------------------------
\* Encoding of the program's values.

NoPrice == 0
NoTrade == 0
PriceScale == 2
ACCOUNT_ID == 7715028

Names == {"default", "default_copy"}
NameOrder == <<"default", "default_copy">>
\* The signal of an alert: two that place_order_projectx maps to a side, and one
\* it does not.
Signals == {"long", "short", "flat"}
\* The ticker of an alert (SignalAlert.ticker).
Tickers == {"NQ", "ES"}
NQContract == "CON.F.US.ENQ.M25"
Contracts == {NQContract}
Prices == {36000, 36035, 36045}
DailyPnls == {0, 350}

MkConfig(sym, con, size, tl, tp, dl, dp) ==
    [CONTRACT_SYMBOL |-> sym, PROJECTX_CONTRACT_ID |-> con, TRADE_SIZE |-> size,
     MAX_TRADE_LOSS |-> tl, MAX_TRADE_PROFIT |-> tp,
     MAX_DAILY_LOSS |-> dl, MAX_DAILY_PROFIT |-> dp]

\* strategies["default"] as written when strategies.json does not exist.
DefaultConfig == MkConfig("NQ", NQContract, 1, -160, 90, -1200, 2000)

\* The configurations a strategies.json supplies in the model.  Neither the
\* file nor the form validates the sign or the order of the thresholds.
ConfigChoices ==
    { DefaultConfig,
      MkConfig("NQ", NQContract, 1, -350, 450, -450, 700),
      MkConfig("ES", NQContract, 2, -1751, 2251, -2000, 3000),
      MkConfig("NQ", NQContract, 1, -500, -400, -1200, 2000) }

\* The values the /update_strategy_config form is given in the model.
UpdateChoices ==
    { DefaultConfig, MkConfig("NQ", NQContract, 1, -350, 450, -450, 700) }

\* trade_states[name] as every initialiser of the code writes it.
FreshState ==
    [trade_active |-> FALSE, daily_pnl |-> 0, current_trade |-> NoTrade,
     trading_halted_today |-> FALSE]

\* Trade.__init__
NewTrade(strategy_name, order_id, direction, account_id, contract_id, size) ==
    [strategy_name |-> strategy_name, order_id |-> order_id,
     account_id |-> account_id, contract_id |-> contract_id,
     entry_price |-> NoPrice, direction |-> direction, size |-> size,
     exit_price |-> NoPrice, pnl |-> 0, status |-> "open"]

Remove(f, k) == [x \in DOMAIN f \ {k} |-> f[x]]
Put(f, k, v) == [x \in DOMAIN f \cup {k} |-> IF x = k THEN v ELSE f[x]]

----------------------------------------------------------------------------
\* BaseStream (streams.py): the object after __init__.

\* StreamConnectionState
StreamStates ==
    {"DISCONNECTED", "CONNECTING", "CONNECTED", "RECONNECTING", "FAILED", "STOPPING"}

\* A start() or stop() call that has not been made.
IdleCall == [pc |-> "idle", result |-> "None", conn |-> 0]

\* BaseStream.__init__, with the session token of the APIClient it is given
\* (main.py authenticates before it builds the streams), the start() and
\* stop() calls the application will make, and no transport connection.
NewStream ==
    [_state |-> "DISCONNECTED", _stop_requested |-> FALSE,
     _reconnect_attempts |-> 0, _connection |-> 0,
     _initial_connection_lock |-> 0, _session_token |-> TRUE,
     starts |-> [i \in 1..MaxStarts |-> IdleCall],
     stops |-> [j \in 1..MaxStops |-> IdleCall],
     conns |-> <<>>]

\* An Optional value: None, or the value.
None == {}
Some(v) == {v}

\* A call of an APIClient operation that was not made yet.
IdleRequest == [pc |-> "idle", op |-> "None", result |-> "None", status_code |-> 0]

\* APIClient.__init__ followed by initialize_topstep_client (main.py lines
\* 100-119), which authenticates: the client holds a session token and
\* main.py's api_client is set.  sent is the requests put on the wire, logins
\* is the number of authenticate() calls.
NewClient ==
    [api_client |-> TRUE, _session_token |-> TRUE, logins |-> 0, sent |-> <<>>,
     calls |-> [c \in 1..MaxCalls |-> IdleRequest]]

\* No GatewayUserTrade message has come: `batches` are the messages the
\* user-stream thread has not worked through yet, `delivered` every event in
\* the order the stream delivered it, `applied` the events handle_user_trade
\* was called with, in the order of the calls.
NoEvents == [batches |-> <<>>, delivered |-> <<>>, applied |-> <<>>]

\* Neither manage_market_stream_after_trade_close nor
\* ensure_market_stream_for_contract is scheduled.
NoTasks ==
    [manage |-> [pc |-> "idle", contract_id |-> "None"],
     ensure |-> [pc |-> "idle", contract_id |-> "None"]]

\* A /manual/trailing_stop_order request that did not arrive yet.
IdleManual ==
    [pc |-> "idle", params |-> None, order_req |-> None, place_order_calls |-> 0,
     result |-> None, success |-> "None", message |-> "None", details |-> None]

NewManual == [m \in 1..MaxManual |-> IdleManual]

----------------------------------------------------------------------------
\* Event loop.

IdleCheck == [pc |-> "idle", todo |-> <<>>, trade |-> NoTrade, pnl |-> 0,
              exit_reason |-> "None"]

\* A coroutine runs from one suspension point to the next without another
\* coroutine of the loop running: the loop is free when no check coroutine is
\* between two of its steps.
LoopIdle == \A k \in DOMAIN checks : checks[k].pc \in {"idle", "queued", "await_close1", "await_close2"}

----------------------------------------------------------------------------
\* Name binding and call binding, as Python resolves them.

\* Names bound in receive_alert_strategy's scope when line 898 is evaluated:
\* its parameters, its local assignments, and the module's globals.
WebhookScope ==
    {"strategy_webhook_name", "alert", "background_tasks", "strategy_cfg",
     "state", "result", "order_id", "signal_dir",
     "trade_states", "ACCOUNT_ID", "strategies", "Trade", "api_client",
     "market_stream", "user_stream", "logger", "OrderRequest"}

\* Trade(..., contract_id=order_req.contract_id, ...): order_req is a local of
\* place_order_projectx only.
OrderReqResolves == "order_req" \in WebhookScope

\* def close_position_projectx(strategy_cfg, current_active_signal_direction,
\*                             target_account_id, size_to_close)
ClosePositionParams ==
    <<"strategy_cfg", "current_active_signal_direction", "target_account_id",
      "size_to_close">>

\* close_position_projectx(trade_strategy_cfg, current_trade_obj.direction,
\*                         current_trade_obj.account_id)
ClosePositionArgs == <<"trade_strategy_cfg", "direction", "account_id">>

\* A close call given every argument of the signature.
CloseCallBindsAlways == TRUE

\* A call binds when every required parameter gets an argument; otherwise the
\* call expression raises TypeError before a coroutine exists.
CloseCallBinds == Len(ClosePositionArgs) = Len(ClosePositionParams)

----------------------------------------------------------------------------
\* Initial states.

\* The order-shaping fields of a SignalAlert (main.py lines 389-392), and
\* their defaults.
MkOrder(order_type, limit_price, stop_price, trailingDistance) ==
    [order_type |-> order_type, limit_price |-> limit_price,
     stop_price |-> stop_price, trailingDistance |-> trailingDistance]

MarketOrder == MkOrder("market", None, None, None)

OrderShapes ==
    { MarketOrder,
      MkOrder("limit", None, None, None),
      MkOrder("limit", Some(36000), None, None),
      MkOrder("stop", None, None, None),
      MkOrder("stop", None, Some(36045), None),
      MkOrder("trailingstop", None, None, None),
      MkOrder("trailingstop", None, None, Some(0)),
      MkOrder("trailingstop", None, None, Some(25)),
      MkOrder("bracket", Some(36000), Some(36045), Some(25)) }

\* A request that has not arrived.  "response" is the kind of the JSON body
\* returned and "reason" the text under its "reason" key ("None": no such key).
IdleWebhook ==
    [pc |-> "idle", strategy |-> "default", signal |-> "long", ticker |-> "NQ",
     order |-> MarketOrder,
     contract |-> "None", order_id |-> NoTrade, response |-> "None",
     reason |-> "None"]

\* After import and startup: no strategies.json, no webhook yet.
Init ==
    /\ strategies = [n \in {"default"} |-> DefaultConfig]
    /\ trade_states = [n \in {} |-> FreshState]
    /\ trades = [i \in {} |-> 0]
    /\ latest_price = [c \in Contracts |-> NoPrice]
    /\ webhooks = [w \in 1..MaxWebhooks |-> IdleWebhook]
    /\ broker_orders = <<>>
    /\ checks = [k \in 1..MaxChecks |-> IdleCheck]
    /\ user_pc = NoTrade
    /\ alert_log = 0
    /\ halt_log = {}
    /\ stream = NewStream
    /\ client = NewClient
    /\ manual = NewManual
    /\ user_events = NoEvents
    /\ tasks = NoTasks

----------------------------------------------------------------------------
\* receive_alert_strategy

SideOf(signal) == IF signal \in {"long", "buy"} THEN "Bid" ELSE "Ask"

\* A buggy SignalRecognized: every signal is given a side.
SignalRecognizedAny(signal) == TRUE

\* Lines 504-512: the signals place_order_projectx maps to a side; any other
\* raises ValueError before the order is sent.
SignalRecognized(signal) == signal \in {"long", "buy", "short", "sell"}

\* Line 498: order_contract_id = alert.ticker or PROJECTX_CONTRACT_ID.
OrderContractId(ticker, cfg) ==
    IF ticker # "" THEN ticker ELSE cfg.PROJECTX_CONTRACT_ID

\* A buggy IsHalted: the halted flag is not looked at.
IsHaltedNever(st) == FALSE

\* Line 869.
IsHalted(st) == st.trading_halted_today

\* A buggy IsActive: the active flag is not looked at.
IsActiveNever(st) == FALSE

\* Line 873.
IsActive(st) == st.trade_active

\* The reason texts of lines 861, 871 and 875.
NotFoundReason(name) == "Strategy '" \o name \o "' not found"
HaltedReason == "daily PnL limit previously reached for this strategy"
ActiveReason(name) == "trade already active for strategy " \o name

\* A buggy OrderShapeAccepted: only the order type is looked at.
OrderTypeKnown(order) ==
    order.order_type \in {"market", "limit", "stop", "trailingstop"}

\* place_order_projectx, lines 514-555: the order type is one of the four
\* known, a limit order has a limit price, a stop order a stop price and a
\* trailing stop a positive distance; otherwise ValueError is raised before
\* the order is built.
OrderShapeAccepted(order) ==
    /\ order.order_type \in {"market", "limit", "stop", "trailingstop"}
    /\ order.order_type = "limit" => order.limit_price # None
    /\ order.order_type = "stop" => order.stop_price # None
    /\ order.order_type = "trailingstop" =>
          /\ order.trailingDistance # None
          /\ \A v \in order.trailingDistance : v > 0

\* Lines 855-886 and place_order_projectx up to `await api_client.place_order`.
\* Requests are numbered in their order of arrival.
ReceiveAlert(w, name, signal, ticker, order) ==
    /\ LoopIdle
    /\ webhooks[w].pc = "idle"
    /\ \A v \in DOMAIN webhooks : v < w => webhooks[v].pc # "idle"
    /\ IF name \notin DOMAIN strategies
       THEN /\ webhooks' = [webhooks EXCEPT ![w] =
                  [@ EXCEPT !.pc = "done", !.strategy = name, !.signal = signal,
                            !.ticker = ticker, !.order = order,
                            !.response = "error_not_found",
                            !.reason = NotFoundReason(name)]]
            /\ UNCHANGED trade_states
       ELSE LET st == IF name \in DOMAIN trade_states THEN trade_states[name]
                      ELSE FreshState
                h == [webhooks[w] EXCEPT !.strategy = name, !.signal = signal,
                                         !.ticker = ticker, !.order = order]
            IN /\ trade_states' = Put(trade_states, name, st)
               /\ webhooks' = [webhooks EXCEPT ![w] =
                     IF IsHalted(st)
                     THEN [h EXCEPT !.pc = "done", !.response = "halted",
                                    !.reason = HaltedReason]
                     ELSE IF IsActive(st)
                     THEN [h EXCEPT !.pc = "done", !.response = "ignored",
                                    !.reason = ActiveReason(name)]
                     ELSE IF ~SignalRecognized(signal)
                     THEN \* ValueError of line 512, caught at line 931
                          [h EXCEPT !.pc = "done", !.response = "error_exception"]
                     ELSE IF ~OrderShapeAccepted(order)
                     THEN \* ValueError of lines 526-552, caught at line 931
                          [h EXCEPT !.pc = "done", !.response = "error_exception"]
                     ELSE [h EXCEPT !.pc = "await_place",
                                    !.contract = OrderContractId(ticker, strategies[name])]]
    /\ UNCHANGED <<strategies, trades, latest_price, broker_orders, checks,
                   user_pc, alert_log, halt_log, stream,
                   client, manual, user_events, tasks>>

\* A webhook that leaves the order-shaping fields at their defaults: a
\* market order.
WebhookReceive(w, name, signal, ticker) ==
    ReceiveAlert(w, name, signal, ticker, MarketOrder)

\* api_client.place_order at the broker: the order is accepted and gets the
\* next order id.
BrokerAccept(w) ==
    /\ webhooks[w].pc = "await_place"
    /\ broker_orders' = Append(broker_orders,
          [kind |-> "entry", strategy |-> webhooks[w].strategy,
           side |-> SideOf(webhooks[w].signal),
           contract |-> webhooks[w].contract])
    /\ webhooks' = [webhooks EXCEPT ![w] =
          [@ EXCEPT !.pc = "placed", !.order_id = Len(broker_orders) + 1]]
    /\ UNCHANGED <<strategies, trade_states, trades, latest_price, checks,
                   user_pc, alert_log, halt_log, stream,
                   client, manual, user_events, tasks>>

\* api_client.place_order answers success false, or raises.
BrokerReject(w) ==
    /\ webhooks[w].pc = "await_place"
    /\ webhooks' = [webhooks EXCEPT ![w] = [@ EXCEPT !.pc = "rejected"]]
    /\ UNCHANGED <<strategies, trade_states, trades, latest_price,
                   broker_orders, checks, user_pc, alert_log, halt_log, stream,
                   client, manual, user_events, tasks>>

\* A buggy PlacementSucceeded: the result is not looked at.
PlacementSucceededAlways(h) == TRUE

\* Line 888: result.get("success") and result.get("orderId").
PlacementSucceeded(h) == h.pc = "placed" /\ h.order_id # NoTrade

\* The reason text of line 927, without the broker's message.
PlaceFailedReason == "Failed to place order"

\* Lines 888-936, after the await returns.
WebhookResume(w) ==
    LET h == webhooks[w]
        name == h.strategy
    IN /\ LoopIdle
       /\ h.pc \in {"placed", "rejected"}
       /\ IF PlacementSucceeded(h)
          THEN IF OrderReqResolves /\ name \in DOMAIN strategies
               THEN \* lines 889-923 (writes through `state`, the dict of line 865)
                    /\ trades' = Put(trades, h.order_id,
                          NewTrade(name, h.order_id,
                                   IF h.signal = "long" THEN "long" ELSE "short",
                                   ACCOUNT_ID, strategies[name].PROJECTX_CONTRACT_ID,
                                   strategies[name].TRADE_SIZE))
                    /\ trade_states' =
                          IF name \in DOMAIN trade_states
                          THEN [trade_states EXCEPT ![name] =
                                  [@ EXCEPT !.current_trade = h.order_id,
                                            !.trade_active = TRUE]]
                          ELSE trade_states
                    /\ webhooks' = [webhooks EXCEPT ![w] =
                          [@ EXCEPT !.pc = "done", !.response = "trade_placed"]]
               ELSE \* NameError at line 898, caught at line 931
                    /\ webhooks' = [webhooks EXCEPT ![w] =
                          [@ EXCEPT !.pc = "done", !.response = "error_exception"]]
                    /\ UNCHANGED <<trades, trade_states>>
          ELSE \* lines 924-930
               /\ webhooks' = [webhooks EXCEPT ![w] =
                     [@ EXCEPT !.pc = "done", !.response = "error_place_failed",
                               !.reason = PlaceFailedReason]]
               /\ UNCHANGED <<trades, trade_states>>
       /\ UNCHANGED <<strategies, latest_price, broker_orders, checks, user_pc,
                      alert_log, halt_log, stream,
                   client, manual, user_events, tasks>>

----------------------------------------------------------------------------
\* Strategy configuration endpoints.

\* update_strategy_config_action
UpdateStrategy(name, cfg) ==
    /\ LoopIdle
    /\ name \in DOMAIN strategies
    /\ strategies' = [strategies EXCEPT ![name] = cfg]
    /\ UNCHANGED <<trade_states, trades, latest_price, webhooks, broker_orders,
                   checks, user_pc, alert_log, halt_log, stream,
                   client, manual, user_events, tasks>>

\* create_new_strategy_action_endpoint
CreateStrategy(name) ==
    /\ LoopIdle
    /\ name \notin DOMAIN strategies
    /\ strategies' = Put(strategies, name, strategies["default"])
    /\ trade_states' = Put(trade_states, name, FreshState)
    /\ UNCHANGED <<trades, latest_price, webhooks, broker_orders, checks,
                   user_pc, alert_log, halt_log, stream,
                   client, manual, user_events, tasks>>

\* delete_strategy_action_endpoint
DeleteStrategy(name) ==
    /\ LoopIdle
    /\ name \in DOMAIN strategies
    /\ name # "default"
    /\ strategies' = Remove(strategies, name)
    /\ trade_states' = Remove(trade_states, name)
    /\ UNCHANGED <<trades, latest_price, webhooks, broker_orders, checks,
                   user_pc, alert_log, halt_log, stream,
                   client, manual, user_events, tasks>>

\* The first of name_copy, name_copy1, ... that is not a strategy; the model
\* follows the names of Names only.
CloneName(name) == IF name = "default" THEN "default_copy" ELSE "None"

\* clone_strategy_action_endpoint
CloneStrategy(name) ==
    /\ LoopIdle
    /\ name \in DOMAIN strategies
    /\ CloneName(name) \in Names \ DOMAIN strategies
    /\ strategies' = Put(strategies, CloneName(name), strategies[name])
    /\ trade_states' = Put(trade_states, CloneName(name), FreshState)
    /\ UNCHANGED <<trades, latest_price, webhooks, broker_orders, checks,
                   user_pc, alert_log, halt_log, stream,
                   client, manual, user_events, tasks>>

----------------------------------------------------------------------------
\* Market stream: handle_market_trade_event and trade_event_handler.

IdleChecks == {k \in DOMAIN checks : checks[k].pc = "idle"}

\* handle_market_trade_event (market-stream thread): the batch is appended to
\* latest_market_trades and one trade_event_handler is scheduled per event.
\* The batch has the shape fetch_current_price looks for (lists of events
\* carrying contractId and price), so p becomes the price of contract c.
\* The coroutines of a batch take the lowest free numbers.
MarketTrades(c, p, Q) ==
    /\ Q # {}
    /\ Q \subseteq IdleChecks
    /\ \A k \in IdleChecks \ Q : \A q \in Q : q < k
    /\ latest_price' = [latest_price EXCEPT ![c] = p]
    /\ checks' = [k \in DOMAIN checks |->
                    IF k \in Q THEN [checks[k] EXCEPT !.pc = "queued"] ELSE checks[k]]
    /\ UNCHANGED <<strategies, trade_states, trades, webhooks, broker_orders,
                   user_pc, alert_log, halt_log, stream,
                   client, manual, user_events, tasks>>

\* The strategies with trade_active and a current_trade, in dict order.
RECURSIVE ActiveFrom(_)
ActiveFrom(i) ==
    IF i > Len(NameOrder) THEN <<>>
    ELSE LET n == NameOrder[i]
         IN (IF /\ n \in DOMAIN trade_states
                /\ trade_states[n].trade_active
                /\ trade_states[n].current_trade # NoTrade
             THEN <<n>> ELSE <<>>) \o ActiveFrom(i + 1)

ActiveStrategies == ActiveFrom(1)

Begin(k) ==
    checks' = [checks EXCEPT ![k] =
        IF ActiveStrategies = <<>> THEN IdleCheck
        ELSE [IdleCheck EXCEPT !.pc = "enter", !.todo = ActiveStrategies]]

\* trade_event_handler, lines 291-296: a scheduled handler gets the loop.
\* A handler only logs its argument, so scheduled handlers are alike and the
\* one that runs is taken to be the lowest-numbered.
HandlerStart(k) ==
    /\ LoopIdle
    /\ checks[k].pc = "queued"
    /\ \A j \in DOMAIN checks : checks[j].pc = "queued" => k <= j
    /\ Begin(k)
    /\ UNCHANGED <<strategies, trade_states, trades, latest_price, webhooks,
                   broker_orders, user_pc, alert_log, halt_log, stream,
                   client, manual, user_events, tasks>>

\* check_trade_status_endpoint, lines 1127-1129.
CheckTradeStatus(k) ==
    /\ LoopIdle
    /\ checks[k].pc = "idle"
    /\ \A j \in IdleChecks : k <= j
    /\ Begin(k)
    /\ UNCHANGED <<strategies, trade_states, trades, latest_price, webhooks,
                   broker_orders, user_pc, alert_log, halt_log, stream,
                   client, manual, user_events, tasks>>

----------------------------------------------------------------------------
\* check_and_close_active_trade

\* A buggy DirSign: the short side is not negated.
DirSignLongOnly(direction) == 1

\* Lines 784 and 718.
DirSign(direction) == IF direction = "long" THEN 1 ELSE -1

\* A buggy RevertStatus: the except branch leaves the mark in place.
RevertStatusKept == "closing"

\* Lines 808, 813, 837, 840: the status written when the close call failed.
RevertStatus == "open_filled"

\* Line 788.
PointValue(cfg) == IF cfg.CONTRACT_SYMBOL = "NQ" THEN 20 ELSE 50

\* Lines 783-790: points_pnl * point_value * size, prices in 1/PriceScale point.
TotalDollarPnl(mark, entry, direction, cfg, size) ==
    ((mark - entry) * DirSign(direction) * PointValue(cfg) * size) \div PriceScale

\* A buggy ExitReason: thresholds compared strictly.
ExitReasonStrict(pnl, cfg) ==
    IF pnl > cfg.MAX_TRADE_PROFIT THEN "Max Trade Profit Hit"
    ELSE IF pnl < cfg.MAX_TRADE_LOSS THEN "Max Trade Loss Hit"
    ELSE "None"

\* Lines 792-796.
ExitReason(pnl, cfg) ==
    IF pnl >= cfg.MAX_TRADE_PROFIT THEN "Max Trade Profit Hit"
    ELSE IF pnl <= cfg.MAX_TRADE_LOSS THEN "Max Trade Loss Hit"
    ELSE "None"

\* Lines 818-823.
EffectiveDailyPnl(state, pnl) == state.daily_pnl + pnl

DailyLimitHit(state, pnl, cfg) ==
    \/ EffectiveDailyPnl(state, pnl) >= cfg.MAX_DAILY_PROFIT
    \/ EffectiveDailyPnl(state, pnl) <= cfg.MAX_DAILY_LOSS

\* check_and_close_active_trade returned: the handler goes on with its next
\* strategy, or ends.
Return(k) ==
    IF Len(checks[k].todo) > 1
    THEN [IdleCheck EXCEPT !.pc = "enter", !.todo = Tail(checks[k].todo)]
    ELSE IdleCheck

\* Lines 817-845 up to the force-close call, with tr the Trade heap as the
\* statements before line 817 left it.
DailyPart(k, n, t, pnl, tr) ==
    IF DailyLimitHit(trade_states[n], pnl, strategies[n])
    THEN IF trade_states[n].trade_active
         THEN /\ trades' = [tr EXCEPT ![t].status = "closing"]
              /\ checks' = [checks EXCEPT ![k] =
                    [@ EXCEPT !.pc = "call2", !.trade = t, !.pnl = pnl]]
              /\ UNCHANGED trade_states
              /\ UNCHANGED halt_log
         ELSE /\ trades' = tr
              /\ trade_states' = [trade_states EXCEPT ![n].trading_halted_today = TRUE]
              /\ halt_log' = halt_log \cup {n}
              /\ checks' = [checks EXCEPT ![k] = Return(k)]
    ELSE /\ trades' = tr
         /\ checks' = [checks EXCEPT ![k] = Return(k)]
         /\ UNCHANGED <<trade_states, halt_log>>

\* Lines 762-802: the guards, the PnL, the per-trade decision and the mark
\* "closing" before the close call.
CheckEnter(k) ==
    LET n == Head(checks[k].todo) IN
    /\ checks[k].pc = "enter"
    /\ IF \/ n \notin DOMAIN trade_states
          \/ ~trade_states[n].trade_active
          \/ trade_states[n].current_trade = NoTrade
          \/ n \notin DOMAIN strategies
       THEN /\ checks' = [checks EXCEPT ![k] = Return(k)]
            /\ UNCHANGED <<trades, trade_states, halt_log>>
       ELSE LET t == trade_states[n].current_trade
                cfg == strategies[n]
                mark == latest_price[cfg.PROJECTX_CONTRACT_ID]
                pnl == TotalDollarPnl(mark, trades[t].entry_price,
                                      trades[t].direction, cfg, trades[t].size)
            IN IF trades[t].entry_price = NoPrice \/ mark = NoPrice
               THEN /\ checks' = [checks EXCEPT ![k] = Return(k)]
                    /\ UNCHANGED <<trades, trade_states, halt_log>>
               ELSE IF ExitReason(pnl, cfg) # "None"
               THEN /\ trades' = [trades EXCEPT ![t].status = "closing"]
                    /\ checks' = [checks EXCEPT ![k] =
                          [@ EXCEPT !.pc = "call1", !.trade = t, !.pnl = pnl,
                                    !.exit_reason = ExitReason(pnl, cfg)]]
                    /\ UNCHANGED <<trade_states, halt_log>>
               ELSE DailyPart(k, n, t, pnl, trades)
    /\ UNCHANGED <<strategies, latest_price, webhooks, broker_orders, user_pc,
                   alert_log, stream,
                   client, manual, user_events, tasks>>

\* Lines 803-815: the call of close_position_projectx.  A call that binds
\* suspends at api_client.place_order; one that does not raises TypeError,
\* which line 812 catches: the status is reverted and the failure logged.
CheckCall1(k) ==
    LET t == checks[k].trade
    IN /\ checks[k].pc = "call1"
       /\ IF CloseCallBinds
          THEN /\ checks' = [checks EXCEPT ![k] = [@ EXCEPT !.pc = "await_close1"]]
               /\ UNCHANGED <<trades, alert_log>>
          ELSE /\ alert_log' = IF alert_log < MaxLogged THEN alert_log + 1 ELSE alert_log
               /\ trades' = [trades EXCEPT ![t].status = RevertStatus]
               /\ checks' = [checks EXCEPT ![k] = [@ EXCEPT !.pc = "daily"]]
       /\ UNCHANGED <<strategies, trade_states, latest_price, webhooks,
                      broker_orders, user_pc, halt_log, stream,
                   client, manual, user_events, tasks>>

\* Lines 817-830 after a per-trade close attempt: the daily check, with the
\* PnL computed at line 790.
CheckDaily(k) ==
    /\ checks[k].pc = "daily"
    /\ DailyPart(k, Head(checks[k].todo), checks[k].trade, checks[k].pnl, trades)
    /\ UNCHANGED <<strategies, latest_price, webhooks, broker_orders, user_pc,
                   alert_log, stream,
                   client, manual, user_events, tasks>>

\* Lines 832-845: the force-close call, as above, and the halt.
CheckCall2(k) ==
    LET n == Head(checks[k].todo)
        t == checks[k].trade
    IN /\ checks[k].pc = "call2"
       /\ IF CloseCallBinds
          THEN /\ checks' = [checks EXCEPT ![k] = [@ EXCEPT !.pc = "await_close2"]]
               /\ UNCHANGED <<trades, trade_states, halt_log>>
          ELSE /\ trades' = [trades EXCEPT ![t].status = RevertStatus]
               /\ trade_states' = [trade_states EXCEPT ![n].trading_halted_today = TRUE]
               /\ halt_log' = halt_log \cup {n}
               /\ checks' = [checks EXCEPT ![k] = Return(k)]
       /\ UNCHANGED <<strategies, latest_price, webhooks, broker_orders, user_pc,
                      alert_log, stream,
                   client, manual, user_events, tasks>>

----------------------------------------------------------------------------
\* handle_user_trade (user-stream thread)

UserStatuses == {"Filled", "Closed"}

\* The strategies whose current trade carries the event's order id.
Owners(order_id) ==
    {n \in DOMAIN trade_states :
        /\ trade_states[n].current_trade # NoTrade
        /\ trades[trade_states[n].current_trade].order_id = order_id}

\* A buggy IsFirstFill: every fill is taken for the entry fill.
IsFirstFillAlways(tr) == TRUE

\* Line 699.
IsFirstFill(tr) == tr.entry_price = NoPrice

\* Line 709.
IsExitFill(tr) == tr.status = "closing"

\* A buggy RealizedPnl: the size of the trade is left out.
RealizedPnlUnsized(tr, exit_price, cfg_symbol) ==
    ((exit_price - tr.entry_price) * DirSign(tr.direction)
        * (IF cfg_symbol = "NQ" THEN 20 ELSE 50)) \div PriceScale

\* Lines 717-722.
RealizedPnl(tr, exit_price, cfg_symbol) ==
    ((exit_price - tr.entry_price) * DirSign(tr.direction)
        * (IF cfg_symbol = "NQ" THEN 20 ELSE 50) * tr.size) \div PriceScale

\* CONTRACT_SYMBOL of strategies.get(strategy_name, {}), "NQ" by default.
SymbolOf(n) == IF n \in DOMAIN strategies THEN strategies[n].CONTRACT_SYMBOL ELSE "NQ"

\* Lines 683-735 and 744-753, for one event of the batch.
HandleUserTrade(order_id, price, status) ==
    /\ user_pc = NoTrade
    /\ IF order_id = 0 \/ Owners(order_id) = {} \/ status # "Filled"
       THEN UNCHANGED <<trades, trade_states, user_pc>>
       ELSE LET n == CHOOSE m \in Owners(order_id) : TRUE
                t == trade_states[n].current_trade
            IN IF IsFirstFill(trades[t])
               THEN /\ trades' = [trades EXCEPT ![t].entry_price = price,
                                                ![t].status = "open_filled"]
                    /\ UNCHANGED <<trade_states, user_pc>>
               ELSE IF IsExitFill(trades[t])
               THEN LET pnl == RealizedPnl(trades[t], price, SymbolOf(n))
                    IN /\ trades' = [trades EXCEPT ![t].exit_price = price,
                                                   ![t].status = "closed",
                                                   ![t].pnl = pnl]
                       /\ trade_states' = [trade_states EXCEPT
                             ![n].daily_pnl = @ + pnl,
                             ![n].trade_active = FALSE]
                       /\ user_pc' = t
               ELSE UNCHANGED <<trades, trade_states, user_pc>>
    /\ UNCHANGED <<strategies, latest_price, webhooks, broker_orders, checks,
                   alert_log, halt_log, stream,
                   client, manual, tasks>>

\* handle_user_trade called with one event, whatever batch it came in.
UserTrade(order_id, price, status) ==
    /\ HandleUserTrade(order_id, price, status)
    /\ UNCHANGED user_events

\* Lines 736-742: state["current_trade"] = None through the dict found at line
\* 696; asyncio.create_task then raises RuntimeError on this thread (no
\* running loop), which line 756 catches.
UserTradeClear ==
    /\ user_pc # NoTrade
    /\ LET n == trades[user_pc].strategy_name
       IN trade_states' =
            IF n \in DOMAIN trade_states /\ trade_states[n].current_trade = user_pc
            THEN [trade_states EXCEPT ![n].current_trade = NoTrade]
            ELSE trade_states
    /\ user_pc' = NoTrade
    /\ UNCHANGED <<strategies, trades, latest_price, webhooks, broker_orders,
                   checks, alert_log, halt_log, stream,
                   client, manual, user_events, tasks>>

----------------------------------------------------------------------------
\* Specifications.

\* Webhook ingestion and the broker's answers.
Ingest ==
    \/ \E w \in DOMAIN webhooks, n \in Names, s \in Signals, t \in Tickers :
          WebhookReceive(w, n, s, t)
    \/ \E w \in DOMAIN webhooks : BrokerAccept(w)
    \/ \E w \in DOMAIN webhooks : BrokerReject(w)
    \/ \E w \in DOMAIN webhooks : WebhookResume(w)

\* The endpoints that add and remove strategies.
Registry ==
    \/ \E n \in Names : CreateStrategy(n)
    \/ \E n \in Names : DeleteStrategy(n)
    \/ \E n \in Names : CloneStrategy(n)

\* The strategy form endpoints.
Admin ==
    \/ \E n \in Names, cfg \in UpdateChoices : UpdateStrategy(n, cfg)
    \/ Registry

\* Stream events and the coroutines they schedule.
Streams ==
    \/ \E c \in Contracts, p \in Prices, Q \in SUBSET DOMAIN checks : MarketTrades(c, p, Q)
    \/ \E k \in DOMAIN checks : HandlerStart(k)
    \/ \E k \in DOMAIN checks : CheckTradeStatus(k)
    \/ \E o \in 0..Len(broker_orders), p \in Prices, s \in UserStatuses : UserTrade(o, p, s)

\* The steps the program takes from Init.
Next == Ingest \/ Admin \/ Streams

Spec == Init /\ [][Next]_vars

\* The trade tracker and the PnL guard on a registered trade.  Under Spec no
\* Trade is ever registered (WebhookResume), so handle_user_trade and
\* check_and_close_active_trade are exercised from the state lines 893-902
\* are written to produce for strategy n: a Trade built by Trade.__init__ for
\* order id 1, trade_active set, the entry fill pending, and the realized
\* daily PnL of the day so far.
InitTracker ==
    \E n \in Names, cfg \in ConfigChoices, d \in {"long", "short"}, dp \in DailyPnls :
        /\ strategies = [m \in {"default", n} |-> IF m = n THEN cfg ELSE DefaultConfig]
        /\ trade_states = [m \in {n} |->
              [trade_active |-> TRUE, daily_pnl |-> dp, current_trade |-> 1,
               trading_halted_today |-> FALSE]]
        /\ trades = [i \in {1} |->
              NewTrade(n, 1, d, ACCOUNT_ID, cfg.PROJECTX_CONTRACT_ID, cfg.TRADE_SIZE)]
        /\ latest_price = [c \in Contracts |-> NoPrice]
        /\ webhooks = [w \in 1..MaxWebhooks |-> IdleWebhook]
        /\ broker_orders = <<[kind |-> "entry", strategy |-> n,
                              side |-> SideOf(d), contract |-> "NQ"]>>
        /\ checks = [k \in 1..MaxChecks |-> IdleCheck]
        /\ user_pc = NoTrade
        /\ alert_log = 0
        /\ halt_log = {}
        /\ stream = NewStream
        /\ client = NewClient
        /\ manual = NewManual
        /\ user_events = NoEvents
        /\ tasks = NoTasks

NextTracker ==
    \/ Admin
    \/ Streams
    \/ \E k \in DOMAIN checks : CheckEnter(k)
    \/ \E k \in DOMAIN checks : CheckCall1(k)
    \/ \E k \in DOMAIN checks : CheckDaily(k)
    \/ \E k \in DOMAIN checks : CheckCall2(k)
    \/ UserTradeClear

SpecTracker == InitTracker /\ [][NextTracker]_vars

\* The GatewayUserTrade events of the model: fills of order 1 at two prices.
UserEvents ==
    { [orderId |-> 1, price |-> p, status |-> "Filled"] : p \in {36000, 36045} }

\* The messages the user hub sends: non-empty lists of events.
Batches == UNION { [1..len -> UserEvents] : len \in 1..MaxEvents }

\* The user-stream thread receives a GatewayUserTrade message; the transport
\* hands its messages to the callback one after the other.
UserStreamDeliver(data) ==
    /\ Len(user_events.delivered) + Len(data) <= MaxEvents
    /\ user_events' = [user_events EXCEPT !.batches = Append(@, data),
                                          !.delivered = @ \o data]
    /\ UNCHANGED <<strategies, trade_states, trades, latest_price, webhooks,
                   broker_orders, checks, user_pc, alert_log, halt_log, stream,
                   client, manual, tasks>>

\* A buggy NextEvent: the loop takes the events of a message last to first.
NextEventLast(data) == Len(data)

\* Line 323, `for trade_event in data`: the position in what is left of the
\* message of the event the loop takes next.
NextEvent(data) == 1

\* What is left of the message after the event at position i.
RemoveAt(data, i) ==
    [j \in 1..(Len(data) - 1) |-> IF j < i THEN data[j] ELSE data[j + 1]]

\* Lines 321-326: one turn of the loop of handle_user_trade_event_from_stream
\* over the message the thread is working through.
HandleUserTradeEventFromStream ==
    /\ user_events.batches # <<>>
    /\ LET data == Head(user_events.batches)
           i == NextEvent(data)
           trade_event == data[i]
           rest == RemoveAt(data, i)
       IN /\ HandleUserTrade(trade_event.orderId, trade_event.price,
                             trade_event.status)
          /\ user_events' = [user_events EXCEPT
                !.batches = IF rest = <<>> THEN Tail(@) ELSE <<rest>> \o Tail(@),
                !.applied = Append(@, trade_event)]

\* A registered trade of "default" before its entry fill, as in InitTracker.
InitFills ==
    /\ InitTracker
    /\ DOMAIN trade_states = {"default"}
    /\ strategies["default"] = MkConfig("NQ", NQContract, 1, -350, 450, -450, 700)

\* The user-stream thread working through the messages it receives, beside
\* one trade_event_handler coroutine.
NextFills ==
    \/ \E data \in Batches : UserStreamDeliver(data)
    \/ HandleUserTradeEventFromStream
    \/ UserTradeClear
    \/ \E p \in Prices : MarketTrades(NQContract, p, {1})
    \/ HandlerStart(1)
    \/ CheckEnter(1)
    \/ CheckCall1(1)
    \/ CheckDaily(1)
    \/ CheckCall2(1)

SpecFills == InitFills /\ [][NextFills]_vars

\* The broker fills order i at price p and the user hub reports the fill, once
\* for an order.
BrokerFills(i, p) ==
    /\ \A j \in 1..Len(user_events.delivered) :
          user_events.delivered[j].orderId # i
    /\ UserStreamDeliver(<<[orderId |-> i, price |-> p, status |-> "Filled"]>>)

\* A registered trade with the fills the broker reports for the orders it
\* holds, the ticks of the contract and one trade_event_handler coroutine.
\* Lines 736-742 of handle_user_trade are not among the steps: they follow an
\* exit fill, and the one order the broker holds is filled before the trade
\* can be "closing".
NextClose ==
    \/ \E i \in DOMAIN broker_orders, p \in Prices : BrokerFills(i, p)
    \/ HandleUserTradeEventFromStream
    \/ \E p \in Prices : MarketTrades(NQContract, p, {1})
    \/ HandlerStart(1)
    \/ CheckEnter(1)
    \/ CheckCall1(1)
    \/ CheckDaily(1)
    \/ CheckCall2(1)

SpecClose == InitFills /\ [][NextClose]_vars

\* The market keeps ticking, the broker fills every order it holds, the
\* user-stream thread works through every message it has received and the
\* event loop resumes every coroutine that can continue.
SpecCloseFair ==
    /\ SpecClose
    /\ WF_vars(\E p \in Prices : MarketTrades(NQContract, p, {1}))
    /\ WF_vars(\E i \in DOMAIN broker_orders, p \in Prices : BrokerFills(i, p))
    /\ WF_vars(HandleUserTradeEventFromStream)
    /\ WF_vars(HandlerStart(1) \/ CheckEnter(1) \/ CheckCall1(1)
                  \/ CheckDaily(1) \/ CheckCall2(1))

\* The webhook from construction, with the fills the broker reports for the
\* orders it accepted.  The fill of an order can be reported as soon as the
\* broker holds it, before or after receive_alert_strategy is resumed.
NextEntry ==
    \/ \E w \in DOMAIN webhooks, s \in Signals :
          WebhookReceive(w, "default", s, "NQ")
    \/ \E w \in DOMAIN webhooks : BrokerAccept(w)
    \/ \E w \in DOMAIN webhooks : BrokerReject(w)
    \/ \E w \in DOMAIN webhooks : WebhookResume(w)
    \/ \E i \in DOMAIN broker_orders, p \in Prices : BrokerFills(i, p)
    \/ HandleUserTradeEventFromStream

SpecEntry == Init /\ [][NextEntry]_vars

\* The broker answers every request and fills every order it holds, the
\* user-stream thread works through every message it has received and the
\* event loop resumes every webhook handler whose request was answered.
SpecEntryFair ==
    /\ SpecEntry
    /\ WF_vars(\E w \in DOMAIN webhooks : BrokerAccept(w) \/ BrokerReject(w))
    /\ WF_vars(\E w \in DOMAIN webhooks : WebhookResume(w))
    /\ WF_vars(\E i \in DOMAIN broker_orders, p \in Prices : BrokerFills(i, p))
    /\ WF_vars(HandleUserTradeEventFromStream)

\* The signals place_order_projectx gives a side (lines 504-512).
AcceptedSignals == {"long", "buy", "short", "sell"}

\* The webhook from construction, given each of the accepted signals.
NextSignals ==
    \/ \E w \in DOMAIN webhooks, s \in AcceptedSignals :
          WebhookReceive(w, "default", s, "NQ")
    \/ \E w \in DOMAIN webhooks : BrokerAccept(w)
    \/ \E w \in DOMAIN webhooks : BrokerReject(w)
    \/ \E w \in DOMAIN webhooks : WebhookResume(w)

SpecSignals == Init /\ [][NextSignals]_vars

\* The fields of a SignalAlert that choose the direction, the contract, the
\* quantity and the account of the entry order (lines 387-395); "" is an
\* empty ticker and None a quantity that is not given.
OffsetAlerts ==
    [signal : AcceptedSignals,
     ticker : {"", "CON.F.US.EP.M25"},
     quantity : {None, Some(3)},
     account_id : {ACCOUNT_ID, 8027309}]

\* Lines 494-501 and 529-537: the entry order place_order_projectx sends for
\* an alert.
EntryOrderOf(name, alert, cfg) ==
    [kind |-> "entry", strategy |-> name,
     side |-> SideOf(alert.signal),
     contract |-> OrderContractId(alert.ticker, cfg),
     account |-> alert.account_id,
     size |-> IF alert.quantity = None THEN cfg.TRADE_SIZE
              ELSE CHOOSE q \in alert.quantity : TRUE]

\* Lines 890-901: the Trade receive_alert_strategy is written to record for
\* the order, order_req.contract_id being the contract of the order sent.
RecordedTrade(name, order_id, alert, cfg) ==
    NewTrade(name, order_id,
             IF alert.signal = "long" THEN "long" ELSE "short",
             alert.account_id, OrderContractId(alert.ticker, cfg),
             cfg.TRADE_SIZE)

\* Strategy "default" with the Trade of an accepted entry order, for each of
\* the alerts.
InitOffset ==
    \E alert \in OffsetAlerts :
       LET cfg == MkConfig("NQ", NQContract, 1, -350, 450, -450, 700) IN
        /\ strategies = [m \in {"default"} |-> cfg]
        /\ trade_states = [m \in {"default"} |->
              [trade_active |-> TRUE, daily_pnl |-> 0, current_trade |-> 1,
               trading_halted_today |-> FALSE]]
        /\ trades = [i \in {1} |-> RecordedTrade("default", 1, alert, cfg)]
        /\ latest_price = [c \in Contracts |-> NoPrice]
        /\ webhooks = [w \in 1..MaxWebhooks |-> IdleWebhook]
        /\ broker_orders = <<EntryOrderOf("default", alert, cfg)>>
        /\ checks = [k \in 1..MaxChecks |-> IdleCheck]
        /\ user_pc = NoTrade
        /\ alert_log = 0
        /\ halt_log = {}
        /\ stream = NewStream
        /\ client = NewClient
        /\ manual = NewManual
        /\ user_events = NoEvents
        /\ tasks = NoTasks

SpecOffset == InitOffset /\ [][NextClose]_vars

\* The contract the entry order was placed on (line 498: the webhook's
\* ticker, or the strategy's PROJECTX_CONTRACT_ID) and the contract the
\* strategy is configured with when the guard runs.
GuardContracts == {NQContract, "CON.F.US.EP.M25"}

\* The PnL guard on a registered trade of "default", before and after its
\* entry fill, with the trade's contract and the configured one the same or
\* not.
InitGuard ==
    \E traded \in GuardContracts, configured \in GuardContracts,
       d \in {"long", "short"}, entry \in {NoPrice, 36000}, dp \in DailyPnls :
        /\ strategies = [m \in {"default"} |->
              MkConfig("NQ", configured, 1, -350, 450, -450, 700)]
        /\ trade_states = [m \in {"default"} |->
              [trade_active |-> TRUE, daily_pnl |-> dp, current_trade |-> 1,
               trading_halted_today |-> FALSE]]
        /\ trades = [i \in {1} |->
              [NewTrade("default", 1, d, ACCOUNT_ID, traded, 1) EXCEPT
                  !.entry_price = entry,
                  !.status = IF entry = NoPrice THEN "open" ELSE "open_filled"]]
        /\ latest_price = [c \in GuardContracts |-> NoPrice]
        /\ webhooks = [w \in 1..MaxWebhooks |-> IdleWebhook]
        /\ broker_orders = <<[kind |-> "entry", strategy |-> "default",
                              side |-> SideOf(d), contract |-> traded]>>
        /\ checks = [k \in 1..MaxChecks |-> IdleCheck]
        /\ user_pc = NoTrade
        /\ alert_log = 0
        /\ halt_log = {}
        /\ stream = NewStream
        /\ client = NewClient
        /\ manual = NewManual
        /\ user_events = NoEvents
        /\ tasks = NoTasks

NextGuard ==
    \/ \E c \in GuardContracts, p \in Prices, Q \in SUBSET DOMAIN checks :
          MarketTrades(c, p, Q)
    \/ \E k \in DOMAIN checks : HandlerStart(k)
    \/ \E k \in DOMAIN checks : CheckEnter(k)
    \/ \E k \in DOMAIN checks : CheckCall1(k)
    \/ \E k \in DOMAIN checks : CheckDaily(k)
    \/ \E k \in DOMAIN checks : CheckCall2(k)
    \/ \E p \in Prices : UserTrade(1, p, "Filled")
    \/ UserTradeClear

SpecGuard == InitGuard /\ [][NextGuard]_vars

\* The runtime states a webhook can find for its strategy.  From Init only the
\* first is reachable (no Trade is ever registered under Spec); the others are
\* the states check_and_close_active_trade and handle_user_trade leave behind
\* under SpecTracker: a trade in progress, a halt after the trade ended, a
\* halt with the trade still active.
FoundStates ==
    { FreshState,
      [FreshState EXCEPT !.trade_active = TRUE, !.current_trade = 1],
      [FreshState EXCEPT !.trading_halted_today = TRUE, !.daily_pnl = 2250],
      [FreshState EXCEPT !.trading_halted_today = TRUE, !.trade_active = TRUE,
                         !.current_trade = 1, !.daily_pnl = 350] }

\* Webhook ingestion from each of these states of strategy "default", or from
\* no runtime state at all.
InitIngest ==
    \E found \in SUBSET FoundStates :
        /\ Cardinality(found) <= 1
        /\ strategies = [n \in {"default"} |-> DefaultConfig]
        /\ trade_states = [n \in {m \in {"default"} : found # {}} |->
                              CHOOSE st \in found : TRUE]
        /\ trades = [i \in {j \in {1} : \E st \in found : st.current_trade = j} |->
                        [NewTrade("default", 1, "long", ACCOUNT_ID, NQContract, 1)
                            EXCEPT !.entry_price = 36000, !.status = "open_filled"]]
        /\ latest_price = [c \in Contracts |-> NoPrice]
        /\ webhooks = [w \in 1..MaxWebhooks |-> IdleWebhook]
        /\ broker_orders = IF trades = <<>> THEN <<>>
                           ELSE <<[kind |-> "entry", strategy |-> "default",
                                   side |-> "Bid", contract |-> "NQ"]>>
        /\ checks = [k \in 1..MaxChecks |-> IdleCheck]
        /\ user_pc = NoTrade
        /\ alert_log = 0
        /\ halt_log = {n \in {"default"} : \E st \in found : st.trading_halted_today}
        /\ stream = NewStream
        /\ client = NewClient
        /\ manual = NewManual
        /\ user_events = NoEvents
        /\ tasks = NoTasks

\* The validations of the webhook read no threshold of the configuration, so
\* the update form is left out here.
NextIngest == Ingest \/ Registry

SpecIngest == InitIngest /\ [][NextIngest]_vars

\* Webhooks with every shape of order, for the existing strategy.
NextShaped ==
    \/ \E w \in DOMAIN webhooks, s \in Signals, order \in OrderShapes :
          ReceiveAlert(w, "default", s, "NQ", order)
    \/ \E w \in DOMAIN webhooks : BrokerAccept(w)
    \/ \E w \in DOMAIN webhooks : BrokerReject(w)
    \/ \E w \in DOMAIN webhooks : WebhookResume(w)

SpecShaped == InitIngest /\ [][NextShaped]_vars

----------------------------------------------------------------------------
\* BaseStream: start(), stop() and the callbacks of the transport.
\*
\* start() and stop() are coroutines of the event loop: each action below is
\* the code between two suspension points, and performs at most one
\* _update_state.  _on_open, _on_close and _on_error are called by the
\* signalrcore connection on its own thread, for every connection whose
\* handlers _setup_handlers registered, whether or not it is still the
\* stream's _connection.  A transport connection is "starting" once
\* connection.start was handed to the executor, then "open", "dropped" (lost,
\* with automatic reconnect pending), "stopped" (connection.stop was called,
\* its close callback pending) or "closed".

mainVars == <<strategies, trade_states, trades, latest_price, webhooks,
              broker_orders, checks, user_pc, alert_log, halt_log,
              client, manual, user_events, tasks>>

\* The event loop is not inside a stop() that found no connection: between
\* its two _update_state calls (lines 173 and 184) that stop() does not
\* suspend, so no other coroutine runs.
StreamLoopIdle == \A j \in 1..MaxStops : stream.stops[j].pc # "finish"

\* _update_state: the new state is stored (and reported to the callback) when
\* it differs from the current one.
UpdateState(s, new_state) == [s EXCEPT !._state = new_state]

\* The end of `async with self._initial_connection_lock` in call i, returning r.
StartReturn(s, i, r) ==
    [s EXCEPT !.starts[i] = [@ EXCEPT !.pc = "done", !.result = r],
              !._initial_connection_lock = 0]

\* Lines 133-152: the connection is built, the handlers are registered and
\* connection.start is handed to the executor.
StartConnect(s, i) ==
    [s EXCEPT !.conns = Append(@, [status |-> "starting", drops |-> 0]),
              !._connection = Len(s.conns) + 1,
              !.starts[i].pc = "executor",
              !.starts[i].conn = Len(s.conns) + 1]

\* Lines 115-130, once call i holds the lock, up to its first suspension.
StartLocked(s, i) ==
    LET held == [s EXCEPT !._initial_connection_lock = i]
    IN IF s._state \in {"CONNECTED", "CONNECTING"}
       THEN StartReturn(held, i, "True")
       ELSE LET connecting ==
                   UpdateState([held EXCEPT !._stop_requested = FALSE], "CONNECTING")
            IN IF connecting._session_token
               THEN StartConnect(connecting, i)
               ELSE [connecting EXCEPT !.starts[i].pc = "authenticate"]

\* start() is called: it takes the lock if it is free, and waits otherwise.
\* The calls are numbered in the order they are made.
StartCall(i) ==
    /\ StreamLoopIdle
    /\ stream.starts[i].pc = "idle"
    /\ \A h \in 1..MaxStarts : h < i => stream.starts[h].pc # "idle"
    /\ stream' = IF stream._initial_connection_lock = 0
                 THEN StartLocked(stream, i)
                 ELSE [stream EXCEPT !.starts[i].pc = "wait_lock"]
    /\ UNCHANGED mainVars

\* A waiting start() gets the lock (asyncio.Lock wakes the first waiter).
StartAcquire(i) ==
    /\ StreamLoopIdle
    /\ stream.starts[i].pc = "wait_lock"
    /\ stream._initial_connection_lock = 0
    /\ \A h \in 1..MaxStarts : stream.starts[h].pc = "wait_lock" => i <= h
    /\ stream' = StartLocked(stream, i)
    /\ UNCHANGED mainVars

\* _ensure_token, lines 60-64: api_client.authenticate() returned; without a
\* token AuthenticationError is raised and caught at line 161.
StartAuthenticated(i, ok) ==
    /\ StreamLoopIdle
    /\ stream.starts[i].pc = "authenticate"
    /\ stream' = IF ok
                 THEN StartConnect([stream EXCEPT !._session_token = TRUE], i)
                 ELSE StartReturn(UpdateState(stream, "FAILED"), i, "False")
    /\ UNCHANGED mainVars

\* Line 146: run_in_executor(connection.start) returned, or raised (caught at
\* line 165) without a transport having been set up; c is the connection this
\* call built.
StartExecutorDone(i, ok) ==
    LET c == stream.starts[i].conn
    IN /\ StreamLoopIdle
       /\ stream.starts[i].pc = "executor"
       /\ ~ok => stream.conns[c].status = "starting"
       /\ stream' = IF ok
                    THEN [stream EXCEPT !.starts[i].pc = "sleep"]
                    ELSE StartReturn(
                            UpdateState([stream EXCEPT !.conns[c].status = "closed"],
                                        "FAILED"), i, "False")
       /\ UNCHANGED mainVars

\* Lines 152-158: after asyncio.sleep(2).
StartAfterSleep(i) ==
    /\ StreamLoopIdle
    /\ stream.starts[i].pc = "sleep"
    /\ stream' = IF stream._state # "CONNECTED"
                 THEN StartReturn(UpdateState(stream, "FAILED"), i, "False")
                 ELSE StartReturn(stream, i, "True")
    /\ UNCHANGED mainVars

\* stop(), lines 171-177: up to run_in_executor(connection.stop) when there is
\* a connection, and up to the last statement otherwise.
StopCall(j) ==
    /\ StreamLoopIdle
    /\ stream.stops[j].pc = "idle"
    /\ \A h \in 1..MaxStops : h < j => stream.stops[h].pc # "idle"
    /\ LET c == stream._connection
           stopping == UpdateState([stream EXCEPT !._stop_requested = TRUE], "STOPPING")
       IN stream' =
            IF c # 0
            THEN [stopping EXCEPT
                    !.stops[j].pc = "executor", !.stops[j].conn = c,
                    !.conns[c].status =
                        IF @ \in {"starting", "open", "dropped"} THEN "stopped" ELSE @]
            ELSE [stopping EXCEPT !.stops[j].pc = "finish"]
    /\ UNCHANGED mainVars

\* stop(), lines 178-184: connection.stop returned or raised; _connection is
\* cleared and the state set to DISCONNECTED.
StopDone(j) ==
    /\ stream.stops[j].pc \in {"executor", "finish"}
    /\ stream' = UpdateState(
                    [stream EXCEPT !.stops[j].pc = "done",
                                   !._connection =
                                       IF stream.stops[j].pc = "executor" THEN 0 ELSE @],
                    "DISCONNECTED")
    /\ UNCHANGED mainVars

\* _on_open, lines 79-83.
OnOpen(s) == [UpdateState(s, "CONNECTED") EXCEPT !._reconnect_attempts = 0]

\* _on_close, lines 85-91.
OnClose(s) ==
    IF ~s._stop_requested THEN UpdateState(s, "RECONNECTING")
    ELSE UpdateState(s, "DISCONNECTED")

\* asyncio.create_task on the connection's thread: there is no running event
\* loop in that thread, so it raises RuntimeError and no start() is scheduled.
CallbackThreadHasLoop == FALSE

\* asyncio.create_task(self.start()) where a loop is running: the first
\* start() not yet made is scheduled, and begins by taking the lock.
ScheduleStart(s) ==
    LET idle == {i \in 1..MaxStarts : s.starts[i].pc = "idle"}
    IN IF idle = {} THEN s
       ELSE [s EXCEPT !.starts[CHOOSE i \in idle : \A h \in idle : i <= h].pc = "wait_lock"]

\* _on_error, lines 93-112, for an error text that names 401 / Unauthorized or
\* does not.
OnError(s, unauthorized) ==
    IF unauthorized
    THEN LET cleared == [s EXCEPT !._session_token = FALSE]
         IN IF ~s._stop_requested /\ CallbackThreadHasLoop
            THEN ScheduleStart(cleared)
            ELSE cleared
    ELSE UpdateState(s, "FAILED")

\* The transport of connection c is established, for the first time or again
\* by the automatic reconnect.
TransportOpen(c) ==
    /\ stream.conns[c].status \in {"starting", "dropped"}
    /\ stream' = OnOpen([stream EXCEPT !.conns[c].status = "open"])
    /\ UNCHANGED mainVars

\* The transport of connection c is lost.
TransportDrop(c) ==
    /\ stream.conns[c].status = "open"
    /\ stream.conns[c].drops < MaxDrops
    /\ stream' = OnClose([stream EXCEPT !.conns[c].status = "dropped",
                                        !.conns[c].drops = @ + 1])
    /\ UNCHANGED mainVars

\* The close callback of a connection that connection.stop() is tearing down.
TransportClosed(c) ==
    /\ stream.conns[c].status = "stopped"
    /\ stream' = OnClose([stream EXCEPT !.conns[c].status = "closed"])
    /\ UNCHANGED mainVars

\* Connection c reports an error.
TransportError(c, unauthorized) ==
    /\ stream.conns[c].status \in {"starting", "open", "dropped"}
    /\ stream' = OnError(stream, unauthorized)
    /\ UNCHANGED mainVars

NextStream ==
    \/ \E i \in 1..MaxStarts : StartCall(i)
    \/ \E i \in 1..MaxStarts : StartAcquire(i)
    \/ \E i \in 1..MaxStarts, ok \in BOOLEAN : StartAuthenticated(i, ok)
    \/ \E i \in 1..MaxStarts, ok \in BOOLEAN : StartExecutorDone(i, ok)
    \/ \E i \in 1..MaxStarts : StartAfterSleep(i)
    \/ \E j \in 1..MaxStops : StopCall(j)
    \/ \E j \in 1..MaxStops : StopDone(j)
    \/ \E c \in 1..Len(stream.conns) : TransportOpen(c)
    \/ \E c \in 1..Len(stream.conns) : TransportDrop(c)
    \/ \E c \in 1..Len(stream.conns) : TransportClosed(c)
    \/ \E c \in 1..Len(stream.conns), u \in BOOLEAN : TransportError(c, u)

\* One stream object from its construction.
SpecStream == Init /\ [][NextStream]_vars

\* The steps the event loop takes on its own: a coroutine that is ready to
\* continue (the lock is free, the executor or the sleep has finished) is
\* resumed.  Calls of start() and stop() and the transport's events are not
\* among them: nothing in the program makes them happen.
LoopSteps ==
    \/ \E i \in 1..MaxStarts : StartAcquire(i)
    \/ \E i \in 1..MaxStarts, ok \in BOOLEAN : StartAuthenticated(i, ok)
    \/ \E i \in 1..MaxStarts, ok \in BOOLEAN : StartExecutorDone(i, ok)
    \/ \E i \in 1..MaxStarts : StartAfterSleep(i)
    \/ \E j \in 1..MaxStops : StopDone(j)

\* One stream object on an event loop that keeps running.
SpecStreamFair == SpecStream /\ WF_vars(LoopSteps)

----------------------------------------------------------------------------
\* MarketDataStream (src/topstep_client/streams.py) with the state-change
\* callback main.py installs on it.  The stream record gets two more fields:
\* _subscriptions, and sent, the number of times the three subscribe messages
\* of a contract were sent on the transport since it was last established.

MarketContracts == {NQContract, "CON.F.US.EP.M25", "CON.F.US.YM.M25"}

NothingSent == [k \in MarketContracts |-> 0]

NewMarketStream ==
    [f \in {"_subscriptions", "sent"} |->
        IF f = "_subscriptions" THEN {} ELSE NothingSent] @@ NewStream

\* subscribe_contract, lines 255-273.
SubscribeContract(s, contract_id, is_resubscribe) ==
    LET added == IF ~is_resubscribe
                 THEN [s EXCEPT !._subscriptions = @ \cup {contract_id}]
                 ELSE s
    IN IF added._state = "CONNECTED" /\ added._connection # 0
       THEN [added EXCEPT !.sent[contract_id] = @ + 1]
       ELSE added

\* unsubscribe_contract, lines 275-290.
UnsubscribeContract(s, contract_id) ==
    IF contract_id \in s._subscriptions
    THEN [s EXCEPT !._subscriptions = @ \ {contract_id}]
    ELSE s

\* main.py, the contract the state-change handler subscribes to.
ContractIdToSubscribe == strategies["default"].PROJECTX_CONTRACT_ID

\* handle_market_stream_state_change, main.py lines 160-172.
HandleMarketStreamStateChange(s, state) ==
    IF state = "CONNECTED"
    THEN SubscribeContract(s, ContractIdToSubscribe, FALSE)
    ELSE s

\* _update_state with the handler as callback: it is called when the state
\* differs, after the new state is stored.
MarketUpdateState(s, new_state) ==
    IF s._state # new_state
    THEN HandleMarketStreamStateChange(UpdateState(s, new_state), new_state)
    ELSE s

\* The loop of MarketDataStream._on_open over list(self._subscriptions).
RECURSIVE ResubscribeAll(_, _)
ResubscribeAll(s, todo) ==
    IF todo = {} THEN s
    ELSE LET contract_id == CHOOSE k \in todo : TRUE
         IN ResubscribeAll(SubscribeContract(s, contract_id, TRUE),
                           todo \ {contract_id})

\* MarketDataStream._on_open, lines 235-241.
MarketOnOpen(s) ==
    LET opened == [MarketUpdateState(s, "CONNECTED") EXCEPT !._reconnect_attempts = 0]
    IN ResubscribeAll(opened, opened._subscriptions)

\* The transport of connection c is established, for the first time or again
\* by the automatic reconnect: nothing was sent on it yet.
MarketTransportOpen(c) ==
    /\ stream.conns[c].status \in {"starting", "dropped"}
    /\ stream' = MarketOnOpen([stream EXCEPT !.conns[c].status = "open",
                                             !.sent = NothingSent])
    /\ UNCHANGED mainVars

\* The application subscribes to a contract (ensure_market_stream_for_contract).
Subscribe(contract_id) ==
    /\ StreamLoopIdle
    /\ stream.sent[contract_id] < MaxSent
    /\ stream' = SubscribeContract(stream, contract_id, FALSE)
    /\ UNCHANGED mainVars

\* The application unsubscribes from a contract
\* (manage_market_stream_after_trade_close).
Unsubscribe(contract_id) ==
    /\ StreamLoopIdle
    /\ contract_id \in stream._subscriptions
    /\ stream' = UnsubscribeContract(stream, contract_id)
    /\ UNCHANGED mainVars

InitMarket ==
    /\ strategies = [n \in {"default"} |-> DefaultConfig]
    /\ trade_states = [n \in {} |-> FreshState]
    /\ trades = [i \in {} |-> 0]
    /\ latest_price = [c \in Contracts |-> NoPrice]
    /\ webhooks = [w \in 1..MaxWebhooks |-> IdleWebhook]
    /\ broker_orders = <<>>
    /\ checks = [k \in 1..MaxChecks |-> IdleCheck]
    /\ user_pc = NoTrade
    /\ alert_log = 0
    /\ halt_log = {}
    /\ stream = NewMarketStream
    /\ client = NewClient
    /\ manual = NewManual
    /\ user_events = NoEvents
    /\ tasks = NoTasks

NextMarket ==
    \/ \E i \in 1..MaxStarts : StartCall(i)
    \/ \E i \in 1..MaxStarts : StartAcquire(i)
    \/ \E i \in 1..MaxStarts, ok \in BOOLEAN : StartExecutorDone(i, ok)
    \/ \E i \in 1..MaxStarts : StartAfterSleep(i)
    \/ \E c \in 1..Len(stream.conns) : MarketTransportOpen(c)
    \/ \E c \in 1..Len(stream.conns) : TransportDrop(c)
    \/ \E k \in MarketContracts : Subscribe(k)
    \/ \E k \in MarketContracts : Unsubscribe(k)

\* The market data stream from its construction.
SpecMarket == InitMarket /\ [][NextMarket]_vars

----------------------------------------------------------------------------
\* manage_market_stream_after_trade_close and
\* ensure_market_stream_for_contract (main.py lines 178-245) on the market
\* data stream.  Both use the first start() and the first stop() of the
\* stream record.

\* All of the stream except its state, which the tasks do not touch.
taskOthers == <<strategies, latest_price, webhooks, checks, user_pc, alert_log,
                halt_log, client, manual, user_events>>

\* start() is called: it takes the lock if it is free, and waits otherwise.
StartBegins(s, i) ==
    IF s._initial_connection_lock = 0
    THEN StartLocked(s, i)
    ELSE [s EXCEPT !.starts[i].pc = "wait_lock"]

\* stop() is called, lines 171-177.
StopBegins(s, j) ==
    LET c == s._connection
        stopping == UpdateState([s EXCEPT !._stop_requested = TRUE], "STOPPING")
    IN IF c # 0
       THEN [stopping EXCEPT
               !.stops[j].pc = "executor", !.stops[j].conn = c,
               !.conns[c].status =
                   IF @ \in {"starting", "open", "dropped"} THEN "stopped" ELSE @]
       ELSE [stopping EXCEPT !.stops[j].pc = "finish"]

\* Lines 216-224: a strategy is active with a current trade on the contract.
IsContractStillActive(contract_id) ==
    \E n \in DOMAIN trade_states :
        /\ trade_states[n].trade_active
        /\ trade_states[n].current_trade # NoTrade
        /\ trades[trade_states[n].current_trade].contract_id = contract_id

\* Lines 239-243: with no subscription left the stream is stopped.
ManageCheckEmpty(s) ==
    IF s._subscriptions = {}
    THEN /\ stream' = StopBegins(s, 1)
         /\ tasks' = [tasks EXCEPT !.manage.pc = "await_stop"]
    ELSE /\ stream' = s
         /\ tasks' = [tasks EXCEPT !.manage.pc = "done"]

\* Lines 204-237: the task starts; it ends when the contract is still active,
\* unsubscribes and sleeps when the stream is connected, and otherwise takes
\* the contract out of _subscriptions and goes on to lines 239-243.
ManageEnter ==
    LET contract_id == tasks.manage.contract_id IN
    /\ StreamLoopIdle
    /\ tasks.manage.pc = "scheduled"
    /\ IF IsContractStillActive(contract_id)
       THEN /\ tasks' = [tasks EXCEPT !.manage.pc = "done"]
            /\ UNCHANGED stream
       ELSE IF stream._state = "CONNECTED"
       THEN /\ stream' = UnsubscribeContract(stream, contract_id)
            /\ tasks' = [tasks EXCEPT !.manage.pc = "sleep"]
       ELSE ManageCheckEmpty([stream EXCEPT !._subscriptions = @ \ {contract_id}])
    /\ UNCHANGED <<taskOthers, trade_states, trades, broker_orders>>

\* Lines 231-243, after asyncio.sleep(0.5).
ManageAfterSleep ==
    /\ StreamLoopIdle
    /\ tasks.manage.pc = "sleep"
    /\ ManageCheckEmpty(stream)
    /\ UNCHANGED <<taskOthers, trade_states, trades, broker_orders>>

\* Line 243: market_stream.stop() returned.
ManageStopped ==
    /\ StreamLoopIdle
    /\ tasks.manage.pc = "await_stop"
    /\ stream.stops[1].pc = "done"
    /\ tasks' = [tasks EXCEPT !.manage.pc = "done"]
    /\ UNCHANGED <<taskOthers, trade_states, trades, broker_orders, stream>>

\* Lines 893-918 as they are written: the Trade of an accepted entry order of
\* strategy n is recorded, the strategy is active and
\* ensure_market_stream_for_contract is scheduled for the contract.
RecordTrade(n) ==
    LET cfg == strategies[n]
        order_id == Len(broker_orders) + 1
    IN /\ StreamLoopIdle
       /\ tasks.ensure.pc = "idle"
       /\ ~trade_states[n].trade_active
       /\ broker_orders' = Append(broker_orders,
             [kind |-> "entry", strategy |-> n, side |-> "Bid",
              contract |-> cfg.PROJECTX_CONTRACT_ID])
       /\ trades' = Put(trades, order_id,
             NewTrade(n, order_id, "long", ACCOUNT_ID, cfg.PROJECTX_CONTRACT_ID,
                      cfg.TRADE_SIZE))
       /\ trade_states' = [trade_states EXCEPT
             ![n] = [@ EXCEPT !.current_trade = order_id, !.trade_active = TRUE]]
       /\ tasks' = [tasks EXCEPT
             !.ensure = [pc |-> "scheduled", contract_id |-> cfg.PROJECTX_CONTRACT_ID]]
       /\ UNCHANGED <<taskOthers, stream>>

\* Lines 178-200: the task starts; it calls start() when the stream is not
\* connected and subscribes at once when it is.
EnsureEnter ==
    /\ StreamLoopIdle
    /\ tasks.ensure.pc = "scheduled"
    /\ IF stream._state # "CONNECTED"
       THEN /\ stream' = StartBegins(stream, 1)
            /\ tasks' = [tasks EXCEPT !.ensure.pc = "await_start"]
       ELSE /\ stream' = SubscribeContract(stream, tasks.ensure.contract_id, FALSE)
            /\ tasks' = [tasks EXCEPT !.ensure.pc = "done"]
    /\ UNCHANGED <<taskOthers, trade_states, trades, broker_orders>>

\* Lines 187-192: start() returned; the task ends when it returned False and
\* sleeps a second otherwise.
EnsureStarted ==
    /\ StreamLoopIdle
    /\ tasks.ensure.pc = "await_start"
    /\ stream.starts[1].pc = "done"
    /\ tasks' = [tasks EXCEPT !.ensure.pc =
                    IF stream.starts[1].result = "True" THEN "sleep" ELSE "done"]
    /\ UNCHANGED <<taskOthers, trade_states, trades, broker_orders, stream>>

\* Lines 197-202, after asyncio.sleep(1).
EnsureAfterSleep ==
    /\ StreamLoopIdle
    /\ tasks.ensure.pc = "sleep"
    /\ stream' = IF stream._state = "CONNECTED"
                 THEN SubscribeContract(stream, tasks.ensure.contract_id, FALSE)
                 ELSE stream
    /\ tasks' = [tasks EXCEPT !.ensure.pc = "done"]
    /\ UNCHANGED <<taskOthers, trade_states, trades, broker_orders>>

\* The trade of "default" on the strategy's contract has closed: the market
\* stream is connected and subscribed to the contract, no strategy is active
\* and manage_market_stream_after_trade_close is scheduled for the contract,
\* as line 740 is written to do.
InitManage ==
    /\ strategies = [n \in Names |-> DefaultConfig]
    /\ trade_states = [n \in Names |-> FreshState]
    /\ trades = [i \in {1} |->
          [NewTrade("default", 1, "long", ACCOUNT_ID, NQContract, 1) EXCEPT
              !.entry_price = 36000, !.exit_price = 36045, !.pnl = 450,
              !.status = "closed"]]
    /\ latest_price = [c \in Contracts |-> NoPrice]
    /\ webhooks = [w \in 1..MaxWebhooks |-> IdleWebhook]
    /\ broker_orders = <<[kind |-> "entry", strategy |-> "default",
                          side |-> "Bid", contract |-> NQContract]>>
    /\ checks = [k \in 1..MaxChecks |-> IdleCheck]
    /\ user_pc = NoTrade
    /\ alert_log = 0
    /\ halt_log = {}
    /\ stream = [NewMarketStream EXCEPT
          !._state = "CONNECTED", !._connection = 1,
          !.conns = <<[status |-> "open", drops |-> 0]>>,
          !._subscriptions = {NQContract},
          !.sent = [NothingSent EXCEPT ![NQContract] = 1]]
    /\ client = NewClient
    /\ manual = NewManual
    /\ user_events = NoEvents
    /\ tasks = [NoTasks EXCEPT
          !.manage = [pc |-> "scheduled", contract_id |-> NQContract]]

\* The two tasks, the entry of a new trade, and the steps of the start() and
\* stop() they call and of the transport, with a gateway that takes every
\* connection.
NextManage ==
    \/ ManageEnter
    \/ ManageAfterSleep
    \/ ManageStopped
    \/ \E n \in Names : RecordTrade(n)
    \/ EnsureEnter
    \/ EnsureStarted
    \/ EnsureAfterSleep
    \/ \E i \in 1..MaxStarts : StartExecutorDone(i, TRUE)
    \/ \E i \in 1..MaxStarts : StartAfterSleep(i)
    \/ \E j \in 1..MaxStops : StopDone(j)
    \/ \E c \in 1..Len(stream.conns) : MarketTransportOpen(c)
    \/ \E c \in 1..Len(stream.conns) : TransportClosed(c)

SpecManage == InitManage /\ [][NextManage]_vars

----------------------------------------------------------------------------
\* APIClient._request (src/topstep_client/api_client.py).  Every operation of
\* the client (place_order, get_accounts, ...) is one call of _request; the
\* calls are coroutines and interleave at their awaits.

Operations == {"place_order", "get_accounts"}

\* The HTTP status the gateway answers a request with.
StatusCodes == {200, 400, 401, 500}

otherVars == <<strategies, trade_states, trades, latest_price, webhooks,
               broker_orders, checks, user_pc, alert_log, halt_log, stream,
               manual, user_events, tasks>>

\* Lines 108-124: the request of call c goes on the wire and the call awaits
\* the response.
SendRequest(cl, c) ==
    [cl EXCEPT !.sent = Append(@, [call |-> c, op |-> cl.calls[c].op]),
               !.calls[c].pc = "await_response"]

\* The call raises: the exception is what its caller gets.
Raise(cl, c, exception, status_code) ==
    [cl EXCEPT !.calls[c] = [@ EXCEPT !.pc = "done", !.result = exception,
                                      !.status_code = status_code]]

\* An operation is called: _request starts with _get_headers (lines 40-50),
\* which authenticates first when there is no session token.
ClientCall(c, op) ==
    /\ client.calls[c].pc = "idle"
    /\ \A b \in 1..MaxCalls : b < c => client.calls[b].pc # "idle"
    /\ LET called == [client EXCEPT !.calls[c].op = op]
       IN client' = IF called._session_token
                    THEN SendRequest(called, c)
                    ELSE [called EXCEPT !.calls[c].pc = "authenticate",
                                        !.logins = @ + 1]
    /\ UNCHANGED otherVars

\* authenticate() (lines 52-94) returned with a token, or raised
\* AuthenticationError, which _get_headers and _request let through.
ClientAuthenticated(c, ok) ==
    /\ client.calls[c].pc = "authenticate"
    /\ client' = IF ok
                 THEN SendRequest([client EXCEPT !._session_token = TRUE], c)
                 ELSE Raise(client, c, "AuthenticationError", 0)
    /\ UNCHANGED otherVars

\* Lines 120-124 and 160-169: the response arrives; raise_for_status raises
\* for every 4xx and 5xx status and _request turns that into APIRequestError
\* carrying the status code and the response text.
ClientResponse(c, status_code) ==
    /\ client.calls[c].pc = "await_response"
    /\ client' = IF status_code >= 400
                 THEN Raise(client, c, "APIRequestError", status_code)
                 ELSE [client EXCEPT !.calls[c] =
                          [@ EXCEPT !.pc = "done", !.result = "returned",
                                    !.status_code = status_code]]
    /\ UNCHANGED otherVars

\* The session token is cleared from outside the client: BaseStream._on_error
\* does so on an unauthorized stream error (streams.py line 106).
ClientTokenCleared ==
    /\ client._session_token
    /\ client' = [client EXCEPT !._session_token = FALSE]
    /\ UNCHANGED otherVars

NextClient ==
    \/ \E c \in 1..MaxCalls, op \in Operations : ClientCall(c, op)
    \/ \E c \in 1..MaxCalls, ok \in BOOLEAN : ClientAuthenticated(c, ok)
    \/ \E c \in 1..MaxCalls, sc \in StatusCodes : ClientResponse(c, sc)
    \/ ClientTokenCleared

\* The APIClient from its construction and initial authentication.
SpecClient == Init /\ [][NextClient]_vars

----------------------------------------------------------------------------
\* The manual trailing-stop endpoint, main.py lines 979-1022.  place_order
\* is the client's operation; what it returns or raises is the gateway's.

ManualSides == {"long", "short", "Short", "buy"}

\* str.lower() on the sides above.
Lower(side) == IF side = "Short" THEN "short" ELSE side

TrailingDistances == {None, Some(0), Some(-5), Some(25)}

\* ManualTradeParams, main.py lines 406-411.
ManualTradeParams ==
    [account_id : {ACCOUNT_ID, 8027309},
     contract_id : {NQContract, "CON.F.US.EP.M25"},
     side : ManualSides,
     size : {1, 2},
     trailingDistance : TrailingDistances]

\* OrderSide and OrderType, schemas.py lines 76-88.
OrderSideBid == 0
OrderSideAsk == 1
OrderTypeTrailingStop == 5

\* PlaceOrderResponse values place_order returns: accepted with an order id,
\* refused, and success without an order id.
PlaceOrderResponses ==
    { [success |-> TRUE, order_id |-> Some(12345), error_message |-> "None"],
      [success |-> FALSE, order_id |-> None, error_message |-> "Order rejected"],
      [success |-> TRUE, order_id |-> None, error_message |-> "None"] }

manualOthers == <<strategies, trade_states, trades, latest_price, webhooks,
                  broker_orders, checks, user_pc, alert_log, halt_log, stream,
                  user_events, tasks>>

\* A buggy DistanceAccepted: a distance that is given is taken.
DistanceAcceptedIfGiven(d) == d # None

\* Line 986 negated: the trailing distance is given and positive.
DistanceAccepted(d) == d # None /\ \A v \in d : v > 0

\* A buggy OrderSideInt: every order is a buy.
OrderSideIntBid(side) == OrderSideBid

\* Lines 989-995 for "long" and "short".
OrderSideInt(side) == IF side = "long" THEN OrderSideBid ELSE OrderSideAsk

\* The handler returns a dict: FastAPI answers 200 with it.
Respond(r, success, message, details) ==
    [r EXCEPT !.pc = "done", !.success = success, !.message = message,
              !.details = details]

\* Lines 979-1007: the request is received and handled up to the await of
\* place_order, or answered before.
ManualReceive(m, params) ==
    /\ manual[m].pc = "idle"
    /\ \A b \in 1..MaxManual : b < m => manual[b].pc # "idle"
    /\ LET r == [manual[m] EXCEPT !.params = Some(params)]
       IN manual' = [manual EXCEPT ![m] =
            IF ~client.api_client
            THEN Respond(r, "False", "APIClient not initialized.", None)
            ELSE IF ~DistanceAccepted(params.trailingDistance)
            THEN Respond(r, "False",
                    "Trailing distance must be a positive value for a trailing stop order.",
                    None)
            ELSE IF Lower(params.side) \notin {"long", "short"}
            THEN Respond(r, "False", "Invalid side parameter", None)
            ELSE [r EXCEPT
                    !.order_req = Some(
                        [account_id |-> params.account_id,
                         contract_id |-> params.contract_id,
                         size |-> params.size,
                         side |-> OrderSideInt(Lower(params.side)),
                         type |-> OrderTypeTrailingStop,
                         trail_price |-> params.trailingDistance]),
                    !.place_order_calls = @ + 1,
                    !.pc = "await_place"]]
    /\ UNCHANGED <<manualOthers, client>>

\* Lines 1007-1018: place_order returned.
ManualPlaceReturned(m, result_details) ==
    /\ manual[m].pc = "await_place"
    /\ LET r == [manual[m] EXCEPT !.result = Some(result_details)]
       IN manual' = [manual EXCEPT ![m] =
            IF result_details.success /\ result_details.order_id # None
            THEN Respond(r, "True", "Trailing stop order placed successfully.",
                         Some(result_details))
            ELSE Respond(r, "False", result_details.error_message,
                         Some(result_details))]
    /\ UNCHANGED <<manualOthers, client>>

\* Lines 1019-1022: place_order raised.
ManualPlaceRaised(m) ==
    /\ manual[m].pc = "await_place"
    /\ manual' = [manual EXCEPT ![m] =
                    Respond(@, "False", "An exception occurred", None)]
    /\ UNCHANGED <<manualOthers, client>>

\* Module initialisation, with initialize_topstep_client having succeeded or
\* failed (main.py lines 100-119).
InitManual ==
    /\ strategies = [n \in {"default"} |-> DefaultConfig]
    /\ trade_states = [n \in {} |-> FreshState]
    /\ trades = [i \in {} |-> 0]
    /\ latest_price = [c \in Contracts |-> NoPrice]
    /\ webhooks = [w \in 1..MaxWebhooks |-> IdleWebhook]
    /\ broker_orders = <<>>
    /\ checks = [k \in 1..MaxChecks |-> IdleCheck]
    /\ user_pc = NoTrade
    /\ alert_log = 0
    /\ halt_log = {}
    /\ stream = NewStream
    /\ \E initialized \in BOOLEAN :
          client = [NewClient EXCEPT !.api_client = initialized]
    /\ manual = NewManual
    /\ user_events = NoEvents
    /\ tasks = NoTasks

NextManual ==
    \/ \E m \in 1..MaxManual, params \in ManualTradeParams : ManualReceive(m, params)
    \/ \E m \in 1..MaxManual, rd \in PlaceOrderResponses : ManualPlaceReturned(m, rd)
    \/ \E m \in 1..MaxManual : ManualPlaceRaised(m)

\* The manual trailing-stop endpoint.
SpecManual == InitManual /\ [][NextManual]_vars

----------------------------------------------------------------------------
\* Properties of webhook ingestion, checked under Spec.

\* The entry orders the broker accepted for strategy n.
EntryOrders(n) ==
    {i \in 1..Len(broker_orders) :
        broker_orders[i].kind = "entry" /\ broker_orders[i].strategy = n}

\* The Trades of strategy n that are not closed.
NonTerminal(n) ==
    {t \in DOMAIN trades :
        trades[t].strategy_name = n /\ trades[t].status # "closed"}

\* C1: for every strategy and every interleaving of concurrent webhook
\* signals for it, there is never more than one non-terminal Trade, and no
\* more than one of the signals gets an entry order placed at the broker.
C1_OneEntryPerStrategy ==
    \A n \in Names :
        /\ Cardinality(NonTerminal(n)) <= 1
        /\ Cardinality(EntryOrders(n)) <= 1

\* C2: when the handler resumes from a placement the broker accepted, it
\* answers "trade_placed", and a Trade with the broker's order id is the
\* strategy's current trade and the strategy is marked active.
C2_PlacedOrderRegistered ==
    [][\A w \in DOMAIN webhooks :
          (webhooks[w].pc = "placed" /\ webhooks'[w].pc = "done") =>
             LET n == webhooks[w].strategy
                 o == webhooks[w].order_id
             IN /\ webhooks'[w].response = "trade_placed"
                /\ o \in DOMAIN trades'
                /\ trades'[o].order_id = o
                /\ n \in DOMAIN trade_states'
                /\ trade_states'[n].current_trade = o
                /\ trade_states'[n].trade_active]_vars

----------------------------------------------------------------------------
\* Properties of the trade tracker and the PnL guard, checked under
\* SpecTracker.

\* The close orders the broker accepted for strategy n.
CloseOrders(n) ==
    {i \in 1..Len(broker_orders) :
        broker_orders[i].kind = "close" /\ broker_orders[i].strategy = n}

\* A step of handle_user_trade on a Trade: the Trade changes and no check
\* coroutine moves.
FillStep(t) == checks' = checks /\ trades'[t] # trades[t]

\* C3: entry_price is set once, by a fill, and never changes afterwards; a
\* fill on a Trade whose entry price is set changes the Trade only when its
\* status is "closing", and then records the exit.
C3_EntryPriceSetOnce ==
    [][\A t \in DOMAIN trades :
          /\ trades[t].entry_price # NoPrice =>
                trades'[t].entry_price = trades[t].entry_price
          /\ (trades[t].entry_price = NoPrice /\ trades'[t] # trades[t]) =>
                /\ FillStep(t)
                /\ trades'[t].entry_price # NoPrice
                /\ trades'[t].exit_price = NoPrice
                /\ trades'[t].status = "open_filled"
          /\ (trades[t].entry_price # NoPrice /\ FillStep(t)) =>
                /\ trades[t].status = "closing"
                /\ trades'[t].status = "closed"
                /\ trades'[t].exit_price # NoPrice]_vars

\* A Trade filled at one price and closed by a later fill at another: the
\* later fill was taken for the exit and left the entry price alone.
C3_Witness ==
    \E t \in DOMAIN trades :
        /\ trades[t].status = "closed"
        /\ trades[t].entry_price = 36000
        /\ trades[t].exit_price = 36045

Evaluates(n) ==
    /\ n \in DOMAIN trade_states
    /\ n \in DOMAIN strategies
    /\ trade_states[n].trade_active
    /\ trade_states[n].current_trade # NoTrade
    /\ trades[trade_states[n].current_trade].entry_price # NoPrice
    /\ latest_price[strategies[n].PROJECTX_CONTRACT_ID] # NoPrice

\* (mark - entry) * (+1 for long, -1 for short) * point value * size, for
\* the current trade of strategy n, in dollars.
UnrealizedPnl(n) ==
    LET tr == trades[trade_states[n].current_trade]
        cfg == strategies[n]
    IN ((latest_price[cfg.PROJECTX_CONTRACT_ID] - tr.entry_price)
           * (IF tr.direction = "long" THEN 1 ELSE -1)
           * (IF cfg.CONTRACT_SYMBOL = "NQ" THEN 20 ELSE 50)
           * tr.size) \div PriceScale

\* Check coroutine k evaluates the guard for the strategy at the head of its
\* list in this step.
GuardStep(k) ==
    /\ checks[k].pc = "enter"
    /\ checks'[k] # checks[k]
    /\ Evaluates(Head(checks[k].todo))

\* C5: the guard attempts a per-trade close if and only if the unrealized
\* PnL is at or above MAX_TRADE_PROFIT or at or below MAX_TRADE_LOSS.
C5_InclusiveThresholds ==
    [][\A k \in DOMAIN checks :
          GuardStep(k) =>
             LET n == Head(checks[k].todo)
             IN (checks'[k].pc = "call1") <=>
                   \/ UnrealizedPnl(n) >= strategies[n].MAX_TRADE_PROFIT
                   \/ UnrealizedPnl(n) <= strategies[n].MAX_TRADE_LOSS]_vars

\* A close attempted at a PnL exactly equal to a threshold.
C5_Witness ==
    \E k \in DOMAIN checks :
        /\ checks[k].pc = "call1"
        /\ checks[k].todo # <<>>
        /\ Head(checks[k].todo) \in DOMAIN strategies
        /\ \/ checks[k].pnl = strategies[Head(checks[k].todo)].MAX_TRADE_PROFIT
           \/ checks[k].pnl = strategies[Head(checks[k].todo)].MAX_TRADE_LOSS

\* Scenario A and B of the guard: strategy n is NQ with size 1 and the
\* thresholds -350 and 450, its trade entered at 18000.00 in direction d and
\* the mark is m.
Scenario(n, d, m) ==
    LET tr == trades[trade_states[n].current_trade]
    IN /\ strategies[n].CONTRACT_SYMBOL = "NQ"
       /\ strategies[n].MAX_TRADE_PROFIT = 450
       /\ strategies[n].MAX_TRADE_LOSS = -350
       /\ tr.size = 1
       /\ tr.direction = d
       /\ tr.entry_price = 36000
       /\ latest_price[strategies[n].PROJECTX_CONTRACT_ID] = m

\* The PnL the guard acts on is the formula's, and the two scenarios close
\* with the PnL and the reason the specification gives.
PnlAndScenarios(k) ==
    LET n == Head(checks[k].todo)
    IN /\ checks'[k].pc = "call1" =>
             checks'[k].pnl = UnrealizedPnl(n)
       /\ Scenario(n, "long", 36045) =>
             /\ checks'[k].pc = "call1"
             /\ checks'[k].pnl = 450
             /\ checks'[k].exit_reason = "Max Trade Profit Hit"
       /\ Scenario(n, "short", 36035) =>
             /\ checks'[k].pc = "call1"
             /\ checks'[k].pnl = -350
             /\ checks'[k].exit_reason = "Max Trade Loss Hit"

\* A favourable move closes for profit only, an adverse move for loss only.
ReasonFollowsMove(k) ==
    LET n == Head(checks[k].todo)
    IN /\ UnrealizedPnl(n) > 0 => checks'[k].exit_reason # "Max Trade Loss Hit"
       /\ UnrealizedPnl(n) < 0 => checks'[k].exit_reason # "Max Trade Profit Hit"

Attempting(k) == checks[k].pc \in {"call1", "call2", "await_close1", "await_close2"}

\* The close call of coroutine k fails in this step.
CloseFails(k) ==
    /\ checks[k].pc \in {"call1", "call2"}
    /\ checks'[k] # checks[k]
    /\ ~Attempting(k)'

\* C7: when the close call fails, the trade's status goes back from
\* "closing" to the open status "open_filled", and the strategy's
\* trade_active, current_trade and daily_pnl are what they were, so the
\* guard evaluates the trade again on the next tick.
C7_FailedCloseReverts ==
    [][\A k \in DOMAIN checks :
          CloseFails(k) =>
             LET n == Head(checks[k].todo)
                 t == checks[k].trade
             IN /\ trades'[t].status = "open_filled"
                /\ trades'[t].entry_price = trades[t].entry_price
                /\ trade_states'[n].trade_active = trade_states[n].trade_active
                /\ trade_states'[n].current_trade = trade_states[n].current_trade
                /\ trade_states'[n].daily_pnl = trade_states[n].daily_pnl]_vars

\* A failed close was logged and the trade, still active, is in a new close
\* attempt.
C7_Witness ==
    /\ alert_log >= 1
    /\ \E k \in DOMAIN checks :
          /\ checks[k].pc = "call1"
          /\ trades[checks[k].trade].status = "closing"
          /\ trade_states[Head(checks[k].todo)].trade_active
          /\ trade_states[Head(checks[k].todo)].current_trade = checks[k].trade

\* C8: for any trade, at most one check coroutine is in a close attempt at a
\* time, so at most one close-order request for it is in flight.
C8_OneCloseAttemptAtATime ==
    \A t \in DOMAIN trades :
        Cardinality({k \in DOMAIN checks : Attempting(k) /\ checks[k].trade = t}) <= 1

\* A close attempt is under way while another check of the same batch is
\* scheduled and a failed attempt came before.
C8_Witness ==
    \E k, j \in DOMAIN checks :
        /\ k # j
        /\ checks[k].pc = "call1"
        /\ checks[j].pc = "queued"
        /\ alert_log >= 1

\* The halted flag of strategy n, as line 869 reads it.
Halted(n) == n \in DOMAIN trade_states /\ trade_states[n].trading_halted_today

----------------------------------------------------------------------------
\* Properties of the webhook's validations, checked under SpecIngest.

\* Request w arrives in this step.
Arrives(w) == webhooks[w].pc = "idle" /\ webhooks'[w].pc # "idle"

\* C11: a webhook received for a strategy whose halted flag is set is answered
\* "halted" at once, no order reaches the broker for it and the runtime
\* states and the Trades are left as they were.
C11_HaltedWebhookRefused ==
    [][\A w \in DOMAIN webhooks :
          (Arrives(w) /\ Halted(webhooks'[w].strategy)
                      /\ webhooks'[w].strategy \in DOMAIN strategies) =>
             /\ webhooks'[w].pc = "done"
             /\ webhooks'[w].response = "halted"
             /\ webhooks'[w].reason = "daily PnL limit previously reached for this strategy"
             /\ broker_orders' = broker_orders
             /\ trade_states' = trade_states
             /\ trades' = trades]_vars

\* A recognized signal for a halted strategy with no trade was answered
\* "halted" and the broker has no order.
C11_Witness ==
    \E w \in DOMAIN webhooks :
        /\ webhooks[w].response = "halted"
        /\ webhooks[w].signal = "short"
        /\ Halted(webhooks[w].strategy)
        /\ ~trade_states[webhooks[w].strategy].trade_active
        /\ broker_orders = <<>>

\* The active flag of strategy n, as line 873 reads it.
Active(n) == n \in DOMAIN trade_states /\ trade_states[n].trade_active

\* C12: a webhook received while the strategy has an active trade (and is not
\* halted) is answered {"status": "ignored", "reason": "trade already active
\* for strategy <name>"}, no order reaches the broker, and the trade and the
\* runtime states are left as they were.
C12_ActiveWebhookIgnored ==
    [][\A w \in DOMAIN webhooks :
          LET n == webhooks'[w].strategy
          IN (Arrives(w) /\ Active(n) /\ ~Halted(n) /\ n \in DOMAIN strategies) =>
                /\ webhooks'[w].pc = "done"
                /\ webhooks'[w].response = "ignored"
                /\ n = "default" =>
                      webhooks'[w].reason = "trade already active for strategy default"
                /\ broker_orders' = broker_orders
                /\ trade_states' = trade_states
                /\ trades' = trades]_vars

\* A long signal for ticker NQ was ignored for strategy "default", whose
\* trade is still the one registered before and the only order at the broker.
C12_Witness ==
    \E w \in DOMAIN webhooks :
        /\ webhooks[w].response = "ignored"
        /\ webhooks[w].strategy = "default"
        /\ webhooks[w].signal = "long"
        /\ webhooks[w].ticker = "NQ"
        /\ Active("default")
        /\ trade_states["default"].current_trade = 1
        /\ trades[1].status = "open_filled"
        /\ Len(broker_orders) = 1

\* C13: a webhook whose ticker is not the CONTRACT_SYMBOL of its strategy is
\* answered {"status": "ignored", "reason": "wrong ticker"} at once: it does
\* not go on to the broker, so no order is placed and no trade registered.
C13_WrongTickerIgnored ==
    [][\A w \in DOMAIN webhooks :
          LET n == webhooks'[w].strategy
          IN (Arrives(w) /\ n \in DOMAIN strategies
                         /\ webhooks'[w].ticker # strategies[n].CONTRACT_SYMBOL) =>
                /\ webhooks'[w].pc = "done"
                /\ webhooks'[w].response = "ignored"
                /\ webhooks'[w].reason = "wrong ticker"
                /\ broker_orders' = broker_orders
                /\ trades' = trades]_vars

\* Request w arrives in this step naming a strategy that does not exist or
\* carrying a signal that is not a direction.
ArrivesInvalid(w) ==
    /\ Arrives(w)
    /\ \/ webhooks'[w].strategy \notin DOMAIN strategies
       \/ webhooks'[w].signal \notin {"long", "short", "buy", "sell"}

\* The handler of request w has returned a JSON body with a status, and
\* neither an order nor a Trade was made.
RefusedWithStatus(w) ==
    /\ webhooks'[w].pc = "done"
    /\ webhooks'[w].response \in {"error_not_found", "error_exception", "halted", "ignored"}
    /\ webhooks'[w].strategy \notin DOMAIN strategies =>
          webhooks'[w].response = "error_not_found"
    /\ broker_orders' = broker_orders
    /\ trades' = trades

\* C14, as amended: such a webhook is answered with a status, places no order
\* and registers no trade; every runtime state that exists is left as it
\* was, none is created for a strategy that does not exist, and for an
\* existing strategy without a runtime state the idle state (inactive, no
\* trade, no PnL, not halted) is created.
C14_InvalidWebhookIdleStateOnly ==
    [][\A w \in DOMAIN webhooks :
          ArrivesInvalid(w) =>
             LET n == webhooks'[w].strategy
             IN /\ RefusedWithStatus(w)
                /\ \A m \in DOMAIN trade_states :
                      m \in DOMAIN trade_states' /\ trade_states'[m] = trade_states[m]
                /\ n \notin DOMAIN strategies => trade_states' = trade_states
                /\ DOMAIN trade_states' \subseteq DOMAIN trade_states \cup {n}
                /\ n \notin DOMAIN trade_states /\ n \in DOMAIN trade_states' =>
                      trade_states'[n] =
                         [trade_active |-> FALSE, daily_pnl |-> 0,
                          current_trade |-> 0, trading_halted_today |-> FALSE]]_vars

\* C14, as stated: such a webhook creates no runtime state at all.
C14_InvalidWebhookNoState ==
    [][\A w \in DOMAIN webhooks :
          ArrivesInvalid(w) =>
             (RefusedWithStatus(w) /\ trade_states' = trade_states)]_vars

\* One webhook named a strategy that does not exist, another carried the
\* signal "flat" for "default": both were answered with an error status and
\* the broker has no order.
C14_Witness ==
    \E v, w \in DOMAIN webhooks :
        /\ webhooks[v].response = "error_not_found"
        /\ webhooks[v].strategy \notin DOMAIN trade_states
        /\ webhooks[w].response = "error_exception"
        /\ webhooks[w].signal = "flat"
        /\ webhooks[w].strategy = "default"
        /\ broker_orders = <<>>

\* The runtime state of strategy n as the handler reads it: the idle state
\* when there is none.
StateRead(n) ==
    IF n \in DOMAIN trade_states THEN trade_states[n]
    ELSE [trade_active |-> FALSE, daily_pnl |-> 0, current_trade |-> 0,
          trading_halted_today |-> FALSE]

\* The handler of request w resumes in this step from a placement that
\* failed.
PlacementFails(w) == webhooks[w].pc = "rejected" /\ webhooks'[w].pc = "done"

\* C15: when the placement of the entry order fails, the handler returns
\* {"status": "error", "reason": ...} and the runtime state of the strategy is
\* what it was before the webhook: the handler's steps (the arrival and the
\* resumption) leave the state as it reads unchanged, and it is not active,
\* has no current trade and is not halted.
C15_FailedPlacementNoChange ==
    [][\A w \in DOMAIN webhooks, n \in Names :
          webhooks'[w].strategy = n =>
             /\ (Arrives(w) /\ webhooks'[w].pc = "await_place") =>
                   /\ ~StateRead(n).trade_active
                   /\ ~StateRead(n).trading_halted_today
                   /\ StateRead(n)' = StateRead(n)
                   /\ trades' = trades
             /\ PlacementFails(w) =>
                   /\ webhooks'[w].response = "error_place_failed"
                   /\ webhooks'[w].reason = "Failed to place order"
                   /\ trade_states' = trade_states
                   /\ trades' = trades
                   /\ broker_orders' = broker_orders
                   /\ ~StateRead(n).trade_active
                   /\ StateRead(n).current_trade = NoTrade
                   /\ ~StateRead(n).trading_halted_today]_vars

\* A long signal for "default" whose placement failed was answered with the
\* error and its reason; the strategy is idle and the broker has no order.
C15_Witness ==
    \E w \in DOMAIN webhooks :
        /\ webhooks[w].response = "error_place_failed"
        /\ webhooks[w].strategy = "default"
        /\ webhooks[w].signal = "long"
        /\ "default" \in DOMAIN trade_states
        /\ trade_states["default"] = FreshState
        /\ broker_orders = <<>>

----------------------------------------------------------------------------
\* Properties of the handler's return, checked under Spec.

\* C16: the handler returns for a placed order without waiting for the fill:
\* when it responds after the broker accepted the order, the Trade registered
\* for the order id has no entry price yet and no exit.
C16_RespondsBeforeFill ==
    [][\A w \in DOMAIN webhooks :
          (webhooks[w].pc = "placed" /\ webhooks'[w].pc = "done") =>
             /\ webhooks[w].order_id \in DOMAIN trades'
             /\ trades'[webhooks[w].order_id].entry_price = NoPrice
             /\ trades'[webhooks[w].order_id].status = "open"]_vars

----------------------------------------------------------------------------
\* Properties of the realized PnL and of the thresholds, checked under
\* SpecTracker.

\* Trade t is finalized in this step: its exit is recorded.
Closes(t) == trades[t].exit_price = NoPrice /\ trades'[t].exit_price # NoPrice

\* The dollars per point of strategy n's symbol, as configured when the exit
\* fill arrives.
PointValueOf(n) ==
    IF n \in DOMAIN strategies /\ strategies[n].CONTRACT_SYMBOL # "NQ" THEN 50 ELSE 20

\* C17: a Trade is closed from "closing", with its entry price set; it ends
\* "closed" with exit_price set and pnl = (exit_price - entry_price) * (+1 for
\* long, -1 for short) * point value * size; the daily PnL of its strategy
\* grows by exactly that pnl in the same step, and changes in no other step;
\* the exit price and the pnl of a Trade never change once recorded, so this
\* happens once per Trade.
C17_RealizedPnlOnce ==
    [][/\ \A t \in DOMAIN trades :
             /\ trades[t].exit_price # NoPrice =>
                   /\ trades'[t].exit_price = trades[t].exit_price
                   /\ trades'[t].pnl = trades[t].pnl
                   /\ trades'[t].entry_price = trades[t].entry_price
             /\ trades'[t].pnl # trades[t].pnl => Closes(t)
             /\ Closes(t) =>
                   LET n == trades[t].strategy_name
                   IN /\ trades[t].status = "closing"
                      /\ trades'[t].status = "closed"
                      /\ trades[t].entry_price # NoPrice
                      /\ trades'[t].entry_price = trades[t].entry_price
                      /\ trades'[t].pnl =
                            ((trades'[t].exit_price - trades[t].entry_price)
                               * (IF trades[t].direction = "long" THEN 1 ELSE -1)
                               * PointValueOf(n) * trades[t].size) \div PriceScale
                      /\ trade_states'[n].daily_pnl =
                            trade_states[n].daily_pnl + trades'[t].pnl
       /\ \A n \in DOMAIN trade_states \cap DOMAIN trade_states' :
             trade_states'[n].daily_pnl # trade_states[n].daily_pnl =>
                \E t \in DOMAIN trades : trades[t].strategy_name = n /\ Closes(t)]_vars

\* A short of size 2 entered at 18000.00 and closed at 18022.50 with NQ's
\* point value: pnl -900, added to the 350 realized before.
C17_Witness ==
    \E t \in DOMAIN trades :
        /\ trades[t].status = "closed"
        /\ trades[t].strategy_name = "default_copy"
        /\ trades[t].direction = "short"
        /\ trades[t].size = 2
        /\ trades[t].entry_price = 36000
        /\ trades[t].exit_price = 36045
        /\ trades[t].pnl = -900
        /\ trades[t].strategy_name \in DOMAIN trade_states
        /\ trade_states[trades[t].strategy_name].daily_pnl = -550

\* The thresholds check_and_close_active_trade applies to the trade of
\* strategy n: those of strategies[n] when the guard runs (line 768).
AppliedThresholds(n) ==
    <<strategies[n].MAX_TRADE_LOSS, strategies[n].MAX_TRADE_PROFIT,
      strategies[n].MAX_DAILY_LOSS, strategies[n].MAX_DAILY_PROFIT>>

\* Strategy n has the same trade in flight before and after this step.
InFlight(n) ==
    /\ n \in DOMAIN strategies /\ n \in DOMAIN trade_states
    /\ trade_states[n].trade_active
    /\ trade_states[n].current_trade # NoTrade

----------------------------------------------------------------------------
\* Properties of the stream's connection state, checked under SpecStream.

\* The transitions of the connection state the specification names, and the
\* restart out of FAILED.
SpecifiedTransitions ==
    { <<"DISCONNECTED", "CONNECTING">>, <<"CONNECTING", "CONNECTED">>,
      <<"CONNECTED", "RECONNECTING">>, <<"RECONNECTING", "CONNECTED">>,
      <<"STOPPING", "DISCONNECTED">>,
      <<"CONNECTING", "FAILED">>, <<"RECONNECTING", "FAILED">>,
      <<"FAILED", "CONNECTING">> }
       \cup {<<q, "STOPPING">> : q \in StreamStates \ {"STOPPING"}}

\* C19: the connection state changes only along the specified transitions,
\* under any order of start(), stop() and transport callbacks; in particular
\* never from CONNECTED directly to FAILED nor from DISCONNECTED directly to
\* CONNECTED.
C19_OnlySpecifiedTransitions ==
    [][stream'._state # stream._state =>
          <<stream._state, stream'._state>> \in SpecifiedTransitions]_vars

\* C20: FAILED is terminal until the application calls start() or stop(): a
\* step that takes the state out of FAILED is a step of a start() or stop()
\* call the application made, not a transport callback.
C20_FailedUntilStart ==
    [][(stream._state = "FAILED" /\ stream'._state # "FAILED") =>
          \/ \E i \in 1..MaxStarts :
                stream.starts[i].pc \in {"idle", "wait_lock"}
                   /\ stream'.starts[i].pc \notin {"idle", "wait_lock"}
          \/ \E j \in 1..MaxStops :
                stream.stops[j].pc = "idle" /\ stream'.stops[j].pc # "idle"]_vars

\* The body of start() call i runs in this step: the call gets the lock.
StartBody(i) ==
    /\ stream.starts[i].pc \in {"idle", "wait_lock"}
    /\ stream'.starts[i].pc \notin {"idle", "wait_lock"}

\* start() call i returns true in this step.
ReturnsTrue(i) ==
    stream.starts[i].result # "True" /\ stream'.starts[i].result = "True"

\* A call made while CONNECTED returns true and changes nothing else.
StartWhileConnected ==
    \A i \in 1..MaxStarts :
        (StartBody(i) /\ stream._state = "CONNECTED") =>
           stream' = [stream EXCEPT !.starts[i].pc = "done",
                                    !.starts[i].result = "True"]

\* When start() returns true the stream is CONNECTED.
TrueMeansConnected ==
    \A i \in 1..MaxStarts : ReturnsTrue(i) => stream'._state = "CONNECTED"

\* A call that waited for the lock overlapped with the call made just before
\* it (the lock is handed over in the order of the calls): when it builds a
\* connection, that call built none, or none that still exists.
OverlappingBuildOne ==
    \A h \in 2..MaxStarts :
        (stream.starts[h].pc = "wait_lock" /\ stream'.starts[h].conn # 0) =>
           \/ stream.starts[h - 1].conn = 0
           \/ stream.conns[stream.starts[h - 1].conn].status = "closed"

\* C21: start() is idempotent: a call made while the stream is CONNECTED
\* changes nothing and opens no second connection, start() returns true only
\* with the stream CONNECTED, and overlapping start() calls never build two
\* connections (read here as: two connections that exist together).
C21_StartIdempotent ==
    [][StartWhileConnected /\ TrueMeansConnected /\ OverlappingBuildOne]_vars

\* stop() call j is made in this step, after an earlier stop() returned and
\* with the stream as that stop() left it: DISCONNECTED, without connection.
StopAgain(j) ==
    /\ stream.stops[j].pc = "idle" /\ stream'.stops[j].pc # "idle"
    /\ \E h \in 1..MaxStops : h < j /\ stream.stops[h].pc = "done"
    /\ stream._state = "DISCONNECTED"
    /\ stream._connection = 0

\* C22: a stop() after a stop() is a no-op: the state stays DISCONNECTED, so
\* _update_state reports nothing to the state-change callback, and no
\* connection is torn down.
C22_SecondStopNoOp ==
    [][\A j \in 1..MaxStops :
          StopAgain(j) =>
             /\ stream'._state = "DISCONNECTED"
             /\ stream'.conns = stream.conns
             /\ stream'._connection = 0]_vars

\* A stop() has returned and no start() has begun its body since: every
\* start() that gets past the two early returns clears _stop_requested.
Stopped ==
    /\ \E j \in 1..MaxStops : stream.stops[j].pc = "done"
    /\ \A j \in 1..MaxStops : stream.stops[j].pc \in {"idle", "done"}
    /\ stream._stop_requested

\* This step is the call of a start() or stop(), or a start() taking the lock.
CallStep ==
    \/ \E i \in 1..MaxStarts : StartBody(i)
    \/ \E i \in 1..MaxStarts : stream.starts[i].pc = "idle" /\ stream'.starts[i].pc # "idle"
    \/ \E j \in 1..MaxStops : stream.stops[j].pc = "idle" /\ stream'.stops[j].pc # "idle"

\* C23: when stop() returns the stream is DISCONNECTED, and it stays
\* DISCONNECTED until the next start(), whatever a start() that was in
\* progress and the transport's late callbacks do in between.
C23_StoppedStaysDisconnected ==
    [][/\ \A j \in 1..MaxStops :
             (stream.stops[j].pc # "done" /\ stream'.stops[j].pc = "done") =>
                stream'._state = "DISCONNECTED"
       /\ (Stopped /\ stream._state = "DISCONNECTED" /\ ~CallStep) =>
             stream'._state = "DISCONNECTED"]_vars

\* The transport of connection c is established in this step.
Opens(c) ==
    /\ stream.conns[c].status \in {"starting", "dropped"}
    /\ stream'.conns[c].status = "open"

\* C24: each time the market stream's transport is established, first or
\* again, the subscribe messages go out exactly once for every contract of
\* the subscription set.
C24_ResubscribeOnce ==
    [][\A c \in 1..Len(stream.conns) :
          Opens(c) => \A k \in stream'._subscriptions : stream'.sent[k] = 1]_vars

\* C25: a stream that is RECONNECTING does not stay so forever: it gets
\* CONNECTED again, or it gives up and is FAILED (or it is stopped).
C25_ReconnectingEnds ==
    (stream._state = "RECONNECTING") ~>
        (stream._state \in {"CONNECTED", "FAILED", "STOPPING", "DISCONNECTED"})

\* C26: when a CONNECTED stream is refused as unauthorized and its session
\* token is cleared, the stream authenticates again and ends up CONNECTED
\* with a token.
C26_ReauthenticatesAfter401 ==
    (stream._state = "CONNECTED" /\ ~stream._session_token) ~>
        (stream._state = "CONNECTED" /\ stream._session_token)

\* The requests call c put on the wire.
SentBy(cl, c) == {i \in 1..Len(cl.sent) : cl.sent[i].call = c}

\* Call c fails towards its caller in this step.
Surfaces(c) ==
    /\ client.calls[c].pc # "done"
    /\ client'.calls[c].pc = "done"
    /\ client'.calls[c].result # "returned"

\* C27: an operation fails on a 401 only after it authenticated again and
\* sent its request a second time; on any other 4xx or 5xx answer it fails
\* with that status, having sent its request once.
C27_RetryOnceOn401 ==
    [][\A c \in 1..MaxCalls :
          (Surfaces(c) /\ client'.calls[c].status_code >= 400) =>
             IF client'.calls[c].status_code = 401
             THEN /\ Cardinality(SentBy(client', c)) = 2
                  /\ client'.logins >= 1
             ELSE /\ Cardinality(SentBy(client', c)) = 1
                  /\ client'.calls[c].result = "APIRequestError"]_vars

\* The parameters request m came with.
ParamsOf(m) == CHOOSE params \in manual[m].params : TRUE

\* Request m arrived without a trailing distance, or with one that is not
\* positive.
NoPositiveDistance(m) ==
    /\ manual[m].pc # "idle"
    /\ \/ ParamsOf(m).trailingDistance = None
       \/ \E v \in ParamsOf(m).trailingDistance : v <= 0

ValidTrailingStop(m) ==
    /\ manual[m].pc # "idle"
    /\ client.api_client
    /\ \E v \in ParamsOf(m).trailingDistance : v > 0
    /\ Lower(ParamsOf(m).side) \in {"long", "short"}

BadShape(order) ==
    \/ order.order_type = "limit" /\ order.limit_price = None
    \/ order.order_type = "stop" /\ order.stop_price = None
    \/ /\ order.order_type = "trailingstop"
       /\ \/ order.trailingDistance = None
          \/ \E v \in order.trailingDistance : v <= 0
    \/ order.order_type \notin {"market", "limit", "stop", "trailingstop"}

\* C30: a webhook whose order-shaping fields break an input constraint is
\* answered at once, no order is sent for it, and it leaves the strategy as
\* it reads: a strategy that was inactive stays inactive, and no trade is
\* registered.
C30_BadShapeNoOrder ==
    [][\A w \in DOMAIN webhooks, n \in Names :
          (Arrives(w) /\ webhooks'[w].strategy = n /\ BadShape(webhooks'[w].order)) =>
             /\ webhooks'[w].pc = "done"
             /\ webhooks'[w].order_id = NoTrade
             /\ broker_orders' = broker_orders
             /\ trades' = trades
             /\ StateRead(n)' = StateRead(n)
             /\ (~StateRead(n).trade_active /\ ~StateRead(n).trading_halted_today) =>
                   /\ webhooks'[w].response = "error_exception"
                   /\ ~StateRead(n)'.trade_active
                   /\ StateRead(n)'.current_trade = NoTrade]_vars

\* A long limit order without limit price for the idle strategy "default"
\* was answered with the error; the strategy is inactive, has no trade, and
\* the broker has no order.
C30_Witness ==
    \E w \in DOMAIN webhooks :
        /\ webhooks[w].pc = "done"
        /\ webhooks[w].response = "error_exception"
        /\ webhooks[w].signal = "long"
        /\ webhooks[w].order = MkOrder("limit", None, None, None)
        /\ ~StateRead("default").trade_active
        /\ StateRead("default").current_trade = NoTrade
        /\ trades = <<>>
        /\ broker_orders = <<>>

----------------------------------------------------------------------------
\* Properties of the Trade lifecycle, checked under SpecTracker.

\* The moves of a Trade's status: "open" is the status before the entry fill
\* (pending_entry), "open_filled" the open status.
LifecycleMoves ==
    { <<"open", "open_filled">>, <<"open_filled", "closing">>,
      <<"closing", "closed">>, <<"closing", "open_filled">> }

GuardRuns(k, n) ==
    /\ checks[k].pc = "enter"
    /\ checks'[k] # checks[k]
    /\ Head(checks[k].todo) = n

\* The trade of strategy n has no entry price yet, or no tick has come for
\* the contract it was placed on.
NoGenuinePrice(n) ==
    /\ n \in DOMAIN trade_states
    /\ trade_states[n].current_trade # NoTrade
    /\ LET tr == trades[trade_states[n].current_trade]
       IN tr.entry_price = NoPrice \/ latest_price[tr.contract_id] = NoPrice

----------------------------------------------------------------------------
\* Properties of the user-stream callback, checked under SpecFills.

\* The event handle_user_trade is called with in this step.
AppliedNow == user_events'.applied[Len(user_events'.applied)]

Applies == Len(user_events'.applied) = Len(user_events.applied) + 1

\* C33: the fill events are applied in the order the stream delivered them,
\* inside a message and from one message to the next: the events
\* handle_user_trade has been called with are always the first events
\* delivered, an entry price or exit price written to the Trade is the price
\* of the event that is applied in that step, and no exit is booked on a
\* Trade whose entry fill has not been applied.
C33_FillsInDeliveryOrder ==
    /\ [](\A i \in 1..Len(user_events.applied) :
             user_events.applied[i] = user_events.delivered[i])
    /\ [][\A t \in DOMAIN trades :
             /\ trades'[t].entry_price # trades[t].entry_price =>
                   /\ Applies
                   /\ trades'[t].entry_price = AppliedNow.price
                   /\ AppliedNow = user_events.delivered[Len(user_events.applied) + 1]
             /\ trades'[t].exit_price # trades[t].exit_price =>
                   /\ Applies
                   /\ trades[t].entry_price # NoPrice
                   /\ trades'[t].exit_price = AppliedNow.price
                   /\ AppliedNow = user_events.delivered[Len(user_events.applied) + 1]]_vars

\* A message of two fills at different prices was worked through after an
\* earlier message: the first fill is the entry, a later one the exit.
C33_Witness ==
    /\ Len(user_events.applied) = 3
    /\ user_events.batches = <<>>
    /\ user_events.applied[2] # user_events.applied[3]
    /\ trades[1].entry_price = user_events.applied[1].price
    /\ trades[1].status = "closed"
    /\ trades[1].exit_price # trades[1].entry_price

----------------------------------------------------------------------------
\* Properties of the close of a trade, checked under SpecCloseFair.

\* The guard has found the PnL of trade t at a per-trade threshold: it marked
\* the trade "closing" and is at its close call.
ThresholdSeen(t) ==
    \E k \in DOMAIN checks : checks[k].pc = "call1" /\ checks[k].trade = t

----------------------------------------------------------------------------
\* Properties of the close order, checked under SpecGuard.

\* The close-order requests for trade t that reached the broker and wait for
\* its answer.
CloseRequests(t) ==
    {k \in DOMAIN checks :
        checks[k].pc \in {"await_close1", "await_close2"} /\ checks[k].trade = t}

\* C35: for each trade, the close orders the broker has accepted and the
\* close-order requests it has yet to answer are never more than one
\* together, so no second close order can be accepted: not on a further tick
\* while the trade is "closing", and not in an invocation that finds both the
\* per-trade threshold and the daily limit crossed.
C35_AtMostOneCloseOrder ==
    \A t \in DOMAIN trades :
        Cardinality(CloseOrders(trades[t].strategy_name))
           + Cardinality(CloseRequests(t)) <= 1

\* One invocation found the per-trade threshold and the daily limit crossed
\* and is at its second close call, with the check of a further tick queued
\* behind it.
C35_Witness ==
    \E k, j \in DOMAIN checks :
        /\ k # j
        /\ checks[k].pc = "call2"
        /\ checks[k].exit_reason # "None"
        /\ trades[checks[k].trade].status = "closing"
        /\ checks[j].pc = "queued"
        /\ CloseOrders(trades[checks[k].trade].strategy_name) = {}

----------------------------------------------------------------------------
\* Properties of the entry fill, checked under SpecEntryFair.

\* C36: the fill of every entry order the broker accepted sets the entry
\* price of the order's Trade in the end, whether the user stream delivers
\* it before or after receive_alert_strategy has recorded the Trade.
C36_EntryFillNotLost ==
    \A i \in 1..MaxWebhooks :
       (i \in DOMAIN broker_orders /\ broker_orders[i].kind = "entry") ~>
          (i \in DOMAIN trades /\ trades[i].entry_price # NoPrice)

----------------------------------------------------------------------------
\* Properties of the recorded direction, checked under SpecSignals.

\* C37: when the handler resumes from an entry order the broker accepted, the
\* Trade it records for the order has the direction of the order's side:
\* "long" for a Bid order (signals long and buy), "short" for an Ask order
\* (signals short and sell).
C37_DirectionAgreesWithSide ==
    [][\A w \in DOMAIN webhooks :
          (webhooks[w].pc = "placed" /\ webhooks'[w].pc = "done") =>
             LET o == webhooks[w].order_id
             IN /\ o \in DOMAIN trades'
                /\ (trades'[o].direction = "long") <=> (broker_orders[o].side = "Bid")
                /\ (trades'[o].direction = "short") <=> (broker_orders[o].side = "Ask")]_vars

----------------------------------------------------------------------------
\* Properties of the close order, checked under SpecOffset.

\* The close call of coroutine k ends in this step.
CloseAttemptEnds(k) ==
    /\ checks[k].pc \in {"call1", "call2"}
    /\ checks'[k].pc # checks[k].pc

\* Order c offsets order e: the same account, contract and quantity, the
\* opposite side.
Offsets(c, e) ==
    /\ c.account = e.account
    /\ c.contract = e.contract
    /\ c.size = e.size
    /\ c.side # e.side

----------------------------------------------------------------------------
\* Properties of the runtime state, checked under SpecGuard.

----------------------------------------------------------------------------
\* Properties of the market-stream tasks, checked under SpecManage.

\* The contract of the current trade of an active strategy.
ActiveContracts ==
    { trades[trade_states[n].current_trade].contract_id :
        n \in {m \in DOMAIN trade_states :
                  trade_states[m].trade_active
                  /\ trade_states[m].current_trade # NoTrade} }

\* Neither task nor a start() or stop() of the stream is under way, and no
\* connection is still waiting for its transport.
TasksFinished ==
    /\ tasks.manage.pc = "done"
    /\ \A c \in 1..Len(stream.conns) : stream.conns[c].status # "starting"
    /\ tasks.ensure.pc \in {"idle", "done"}
    /\ \A i \in 1..MaxStarts : stream.starts[i].pc \in {"idle", "done"}
    /\ \A j \in 1..MaxStops : stream.stops[j].pc \in {"idle", "done"}

====
